---- MODULE Spec2Model ----
(***************************************************************************)
(* Model of the glidex control plane: the VM lifecycle manager             *)
(* (src/src/state.rs), its catalog store (src/src/persistence.rs), the VM  *)
(* record (models.rs) and the hypervisor process supervisor                *)
(* (src/src/firecracker.rs) as far as the lifecycle manager drives it.     *)
(*                                                                         *)
(* Every public operation of VmManager is split into the steps between     *)
(* which the control plane can be killed; the registry lock is held from   *)
(* the first step of an operation to its return.                           *)
(***************************************************************************)
EXTENDS Integers, FiniteSets, Sequences, TLC

\* ------------------------------------------------------------------ bounds

\* Number of ids Uuid::new_v4 hands out in one behaviour.
MaxIds == 2
\* Number of distinct VM names clients use.
MaxNames == 2
\* Number of request tasks served concurrently.
NumTasks == 2
\* Number of chunks the guest writes to its console.
MaxChunks == 2
\* Number of clients that connect to the console socket.
MaxClients == 2
\* Number of times kill is called on one process handle.
MaxKills == 2
\* Number of pieces of text in the body of a hypervisor response.
MaxBody == 2
Ids == 1..MaxIds
Names == 1..MaxNames
Tasks == 1..NumTasks
Clients == 1..MaxClients

\* VmConfig values a client sends (vcpu_count, mem_size_mib).
Configs == { [vcpu_count |-> 2, mem_size_mib |-> 512] }
NoConfig == [vcpu_count |-> 0, mem_size_mib |-> 0]

\* ------------------------------------------------------------------ models.rs

VmStates == {"Created", "Running", "Paused", "Stopped"}

SocketPath(id) == <<"/tmp/firecracker-", id, ".sock">>
ConsoleSocketPath(id) == <<"/tmp/firecracker-", id, ".console.sock">>
LogPath(id) == <<"/tmp/firecracker-", id, ".log">>

\* Mutant: the record is built with the wrong initial state.
VmNewStopped(id, name, config) ==
    [ id |-> id, name |-> name, state |-> "Stopped", config |-> config,
      socket_path |-> SocketPath(id),
      console_socket_path |-> ConsoleSocketPath(id),
      log_path |-> LogPath(id) ]

\* Vm::new: state Created, the three paths derived from the id.
VmNew(id, name, config) ==
    [ id |-> id, name |-> name, state |-> "Created", config |-> config,
      socket_path |-> SocketPath(id),
      console_socket_path |-> ConsoleSocketPath(id),
      log_path |-> LogPath(id) ]

\* #[serde(rename_all = "lowercase")] on VmState.
SerializeState(s) ==
    CASE s = "Created" -> "created"
      [] s = "Running" -> "running"
      [] s = "Paused"  -> "paused"
      [] s = "Stopped" -> "stopped"

DeserializeState(j) ==
    CASE j = "created" -> "Created"
      [] j = "running" -> "Running"
      [] j = "paused"  -> "Paused"
      [] j = "stopped" -> "Stopped"

\* Mutant: mem_size_mib is not written.
SerializeWithoutMem(vm) ==
    [vm EXCEPT !.state = SerializeState(vm.state), !.config.mem_size_mib = 0]

\* serde_json::to_vec(&vm): the record as a JSON object.
Serialize(vm) == [vm EXCEPT !.state = SerializeState(vm.state)]

\* serde_json::from_slice::<Vm>.
Deserialize(bytes) == [bytes EXCEPT !.state = DeserializeState(bytes.state)]

\* ------------------------------------------------------------------ state

VARIABLES
    catalog,      \* the redb table "vms": id -> serialized Vm (durable)
    vms,          \* VmManager.vms: id -> VmEntry (lost when the process dies)
    sockets,      \* control socket files that exist under /tmp
    hv,           \* per VM id: the child a handle (or a running spawn) owns, or "none"
    leaked,       \* VM ids with a live hypervisor child that no handle refers to
    phase,        \* "down" | "init" | "serving"
    persisted,    \* initialize: persisted_vms, the records load_all returned
    initQueue,    \* initialize: the records of persisted_vms not yet processed
    lock,         \* the RwLock over vms: writer task (0 = none) and readers
    pc,           \* per task: position in its operation
    req,          \* per task: the request it serves
    nextId,       \* next id Uuid::new_v4 returns
    response,     \* the result returned by the step just taken, if any
    issued,       \* the hypervisor API call made by the step just taken, if any
    prior,        \* registry, catalog and processes when the operation began
    acked,        \* per VM id: the last transition returned to a client
    interrupted,  \* per VM id: operation cut by a kill after its catalog commit
    dropped,      \* what the registry held when the manager was last dropped or shut down
    console,      \* the console thread of one hypervisor process
    client,       \* one FirecrackerClient call: request, response, result
    spawn         \* one call of FirecrackerProcess::spawn, step by step

vars == << catalog, vms, sockets, hv, leaked, phase, persisted, initQueue, lock,
           pc, req, nextId, response, issued, prior, acked, interrupted, dropped,
           console, client, spawn >>

EmptyMap == [i \in {} |-> 0]

Put(m, k, v) == [i \in (DOMAIN m) \cup {k} |-> IF i = k THEN v ELSE m[i]]

\* Mutant: the entry stays in the map.
RemoveNothing(m, k) == m

Remove(m, k) == [i \in (DOMAIN m) \ {k} |-> m[i]]

NoReq == [op |-> "none", id |-> 0, name |-> 0, config |-> NoConfig]
NoResponse == [kind |-> "none"]
NoLock == [writer |-> 0, readers |-> {}]
NoDrop == [clean |-> FALSE, list |-> {}, live |-> {}]
NoCall == "none"
NoPrior == [taken |-> FALSE]

WriteOps == {"create", "start", "stop", "pause", "delete"}
ReadOps == {"get", "list"}

Requests ==
    { [op |-> "create", id |-> 0, name |-> n, config |-> c] :
          n \in Names, c \in Configs }
    \cup { [op |-> o, id |-> i, name |-> 0, config |-> NoConfig] :
          o \in {"start", "stop", "pause", "delete", "get"}, i \in Ids }
    \cup { [op |-> "list", id |-> 0, name |-> 0, config |-> NoConfig] }

NoKill == [taken |-> FALSE]

\* The console thread and the process handle as FirecrackerProcess::spawn
\* returns them: the child alive, both socket files present, the log file
\* truncated, no client connected, nothing read from the PTY master.
\*   pc, running, next, data, clients, pos: the loop's position and locals
\*   log: the chunks in the log file;  known: clients that have connected
\*   pending: the stream accept returned;  nonblocking: streams switched
\*   had, seen: per client, the log and the next chunk number at its accept
\*   replayed, received: per client, what the replay and the fan-out wrote
\*   child, joined, api, sock, logfile: the handle's child, its thread
\*   handle (taken or not) and the three files
\*   killpc, kills: position of a running kill, number of kills returned
\*   kept: the log when the first kill began;  first: what the first kill left
ConsoleStart ==
    [ pc |-> "accept", running |-> TRUE, next |-> 1, data |-> 0, log |-> << >>,
      clients |-> << >>, pos |-> 0, known |-> {},
      pending |-> 0, nonblocking |-> {}, failed |-> {},
      had |-> [c \in Clients |-> << >>],
      seen |-> [c \in Clients |-> 0],
      replayed |-> [c \in Clients |-> << >>],
      received |-> [c \in Clients |-> << >>],
      child |-> "alive", joined |-> FALSE,
      api |-> TRUE, sock |-> TRUE, logfile |-> TRUE,
      killpc |-> "idle", kills |-> 0, kept |-> << >>, first |-> NoKill ]

\* A FirecrackerClient before a call.
ClientStart ==
    [ pc |-> "idle", call |-> "none", status |-> 0, body |-> << >>,
      result |-> "none" ]

\* FirecrackerProcess::spawn before it is called.
SpawnStart ==
    [ pc |-> "idle", polls |-> 0, api |-> FALSE, child |-> FALSE,
      thread |-> FALSE, result |-> "none" ]

Init ==
    /\ catalog = EmptyMap
    /\ vms = EmptyMap
    /\ sockets = {}
    /\ hv = [i \in Ids |-> "none"]
    /\ leaked = {}
    /\ phase = "down"
    /\ persisted = {}
    /\ initQueue = {}
    /\ lock = NoLock
    /\ pc = [t \in Tasks |-> "idle"]
    /\ req = [t \in Tasks |-> NoReq]
    /\ nextId = 1
    /\ response = NoResponse
    /\ issued = NoCall
    /\ prior = NoPrior
    /\ acked = EmptyMap
    /\ interrupted = [i \in Ids |-> "none"]
    /\ dropped = NoDrop
    /\ console = ConsoleStart
    /\ client = ClientStart
    /\ spawn = SpawnStart

\* ------------------------------------------------------------------ persistence.rs

\* Mutant: the write transaction is never committed.
StoreSaveLost(table, vm) == table

\* VmStore::save: insert-or-replace under vm.id.
StoreSave(table, vm) == Put(table, vm.id, Serialize(vm))

\* Mutant: the key stays in the table.
StoreDeleteKeeps(table, id) == table

\* VmStore::delete: remove the key, no-op when absent.
StoreDelete(table, id) == Remove(table, id)

\* Mutant: the transaction commits the record as it was read.
StoreUpdateStateStale(table, id, new_state) == table

\* Mutant: the record is written anew from the id, nameless.
StoreUpdateStateRebuilds(table, id, new_state) ==
    Put(table, id, Serialize([VmNew(id, 0, NoConfig) EXCEPT !.state = new_state]))

\* VmStore::update_state: read the record, replace its state, write it back.
\* The caller handles the absent key (PersistenceError::VmNotFound).
StoreUpdateState(table, id, new_state) ==
    Put(table, id, Serialize([Deserialize(table[id]) EXCEPT !.state = new_state]))

\* VmStore::load_all: every record, deserialized.
StoreLoadAll(table) == { Deserialize(table[i]) : i \in DOMAIN table }

\* ------------------------------------------------------------------ firecracker.rs

\* FirecrackerProcess::spawn starts by removing the control socket file.
SocketsSpawnPrepared(fs, id) == fs \ {SocketPath(id)}

\* FirecrackerProcess::kill removes the control socket file.
SocketsAfterKill(fs, id) == fs \ {SocketPath(id)}

\* Mutant: every hypervisor child is killed, not only the handle's.
HvAfterKillAll(h, id) == [i \in Ids |-> "none"]

\* FirecrackerProcess::kill: the child of the handle is killed.
HvAfterKill(h, id) == [h EXCEPT ![id] = "none"]

\* A request over the control socket reaches a hypervisor only when the
\* socket file exists and the child that bound it is alive.
HvReachable(id) == hv[id] # "none" /\ SocketPath(id) \in sockets

\* ------------------------------------------------------------------ state.rs

VmEntry(vm, process) == [vm |-> vm, process |-> process]

Ok(t, op, vm) ==
    [kind |-> "Ok", op |-> op, id |-> vm.id, vm |-> vm, error_logged |-> FALSE]

\* Ok(vm) returned after tracing::error! has reported a failed catalog write.
OkLogged(t, op, vm) == [Ok(t, op, vm) EXCEPT !.error_logged = TRUE]

OkDeleted(t, id) ==
    [kind |-> "Ok", op |-> "delete", id |-> id, error_logged |-> FALSE]
OkList(t, list) ==
    [kind |-> "Ok", op |-> "list", id |-> 0, list |-> list, error_logged |-> FALSE]
Err(t, op, id, kind) == [kind |-> kind, op |-> op, id |-> id]
ErrAlreadyExists(t, name) ==
    [kind |-> "VmAlreadyExists", op |-> "create", id |-> 0, name |-> name]
ErrInvalidState(t, op, id, current) ==
    [kind |-> "InvalidState", op |-> op, id |-> id, current |-> current]

\* The last transition a client was told of, per id.
Ack(vm) == Put(acked, vm.id, [name |-> vm.name, config |-> vm.config, state |-> vm.state])

\* Mutant: the write guard is granted while readers hold the lock.
CanWriteWhileRead == lock.writer = 0

\* self.vms.write().await: granted while nobody holds the lock.
CanWrite == lock.writer = 0 /\ lock.readers = {}

\* Task t, idle, takes up request r of kind op.
Begins(t, r, op) == phase = "serving" /\ pc[t] = "idle" /\ r.op = op

At(t, label) == pc[t] = label /\ lock.writer = t

\* What an operation finds when it takes the guard.
Snapshot ==
    [taken |-> TRUE, vms |-> vms, catalog |-> catalog, hv |-> hv,
     leaked |-> leaked, sockets |-> sockets]

\* A step of the process outside the request handlers.
Silent == response' = NoResponse /\ issued' = NoCall /\ prior' = NoPrior

\* The write guard is taken; the operation goes on at `label`.
Enter(t, label) ==
    /\ lock' = [lock EXCEPT !.writer = t]
    /\ pc' = [pc EXCEPT ![t] = label]
    /\ response' = NoResponse
    /\ issued' = NoCall
    /\ prior' = Snapshot

\* The step sends `call` to the hypervisor and the operation goes on.
GotoCalling(t, label, call) ==
    /\ pc' = [pc EXCEPT ![t] = label]
    /\ response' = NoResponse
    /\ issued' = call
    /\ UNCHANGED << lock, prior >>

Goto(t, label) == GotoCalling(t, label, NoCall)

\* The operation returns `resp`, having sent `call` in its last step; the
\* guard is dropped.
ReturnCalling(t, resp, call) ==
    /\ pc' = [pc EXCEPT ![t] = "idle"]
    /\ req' = [req EXCEPT ![t] = NoReq]
    /\ lock' = [lock EXCEPT !.writer = 0]
    /\ response' = resp
    /\ issued' = call
    /\ prior' = IF pc[t] = "idle" THEN Snapshot ELSE prior

Return(t, resp) == ReturnCalling(t, resp, NoCall)

\* ---- create_vm

\* Mutant: the name of a VM that was deleted is still taken.
NameExistsEver(name) ==
    \/ \E i \in DOMAIN vms : vms[i].vm.name = name
    \/ \E i \in DOMAIN acked : acked[i].name = name

\* Mutant: the check compares ids, not names.
NameExistsById(name) == \E i \in DOMAIN vms : vms[i].vm.id = name

NameExists(name) == \E i \in DOMAIN vms : vms[i].vm.name = name

CreateConflict(t, r) ==
    /\ Begins(t, r, "create") /\ CanWrite
    /\ NameExists(r.name)
    /\ Return(t, ErrAlreadyExists(t, r.name))
    /\ UNCHANGED << catalog, vms, sockets, hv, leaked, phase, persisted, initQueue,
                    nextId, acked, interrupted, dropped,
                    console, client, spawn >>

CreateBegin(t, r) ==
    /\ Begins(t, r, "create") /\ CanWrite
    /\ ~NameExists(r.name)
    /\ nextId <= MaxIds
    /\ req' = [req EXCEPT ![t] = [r EXCEPT !.id = nextId]]
    /\ nextId' = nextId + 1
    /\ Enter(t, "c_save")
    /\ UNCHANGED << catalog, vms, sockets, hv, leaked, phase, persisted, initQueue,
                    acked, interrupted, dropped,
                    console, client, spawn >>

CreateVm(t) == VmNew(req[t].id, req[t].name, req[t].config)

CreateSaveOk(t) ==
    /\ At(t, "c_save")
    /\ catalog' = StoreSave(catalog, CreateVm(t))
    /\ Goto(t, "c_insert")
    /\ UNCHANGED << vms, sockets, hv, leaked, phase, persisted, initQueue, req,
                    nextId, acked, interrupted, dropped,
                    console, client, spawn >>

CreateSaveFail(t) ==
    /\ At(t, "c_save")
    /\ Return(t, Err(t, "create", req[t].id, "PersistenceError"))
    /\ UNCHANGED << catalog, vms, sockets, hv, leaked, phase, persisted, initQueue,
                    nextId, acked, interrupted, dropped,
                    console, client, spawn >>

CreateInsert(t) ==
    /\ At(t, "c_insert")
    /\ vms' = Put(vms, req[t].id, VmEntry(CreateVm(t), "None"))
    /\ Return(t, Ok(t, "create", CreateVm(t)))
    /\ acked' = Ack(CreateVm(t))
    /\ interrupted' = [interrupted EXCEPT ![req[t].id] = "none"]
    /\ UNCHANGED << catalog, sockets, hv, leaked, phase, persisted, initQueue,
                    nextId, dropped,
                    console, client, spawn >>

\* ---- start_vm

Quiet == UNCHANGED << catalog, vms, sockets, hv, leaked, phase, persisted, initQueue,
                      nextId, acked, interrupted, dropped,
                      console, client, spawn >>

StartNotFound(t, r) ==
    /\ Begins(t, r, "start") /\ CanWrite
    /\ r.id \notin DOMAIN vms
    /\ Return(t, Err(t, "start", r.id, "VmNotFound"))
    /\ Quiet

StartInvalid(t, r) ==
    /\ Begins(t, r, "start") /\ CanWrite
    /\ r.id \in DOMAIN vms
    /\ vms[r.id].vm.state = "Running"
    /\ Return(t, ErrInvalidState(t, "start", r.id, "Running"))
    /\ Quiet

\* Created | Stopped: the spawn path; Paused: the resume path.
StartBegin(t, r) ==
    /\ Begins(t, r, "start") /\ CanWrite
    /\ r.id \in DOMAIN vms
    /\ LET st == vms[r.id].vm.state IN
         \/ /\ st \in {"Created", "Stopped"}
            /\ Enter(t, "s_spawn")
         \/ /\ st = "Paused"
            /\ Enter(t, "s_resume")
    /\ req' = [req EXCEPT ![t] = r]
    /\ Quiet

\* FirecrackerProcess::spawn returns a handle: the child runs, the console
\* socket is bound and the control socket was seen.
SpawnOk(t) ==
    /\ At(t, "s_spawn")
    /\ sockets' = SocketsSpawnPrepared(sockets, req[t].id) \cup {SocketPath(req[t].id)}
    /\ hv' = [hv EXCEPT ![req[t].id] = "fresh"]
    /\ Goto(t, "s_machine")
    /\ UNCHANGED << leaked, catalog, vms, phase, persisted, initQueue, req, nextId, acked,
                    interrupted, dropped,
                    console, client, spawn >>

\* spawn fails before a child exists (log file, openpty or Command::spawn).
SpawnFailEarly(t) ==
    /\ At(t, "s_spawn")
    /\ sockets' = SocketsSpawnPrepared(sockets, req[t].id)
    /\ Return(t, Err(t, "start", req[t].id, "FirecrackerError"))
    /\ UNCHANGED << catalog, vms, hv, leaked, phase, persisted, initQueue, nextId,
                    acked, interrupted, dropped,
                    console, client, spawn >>

\* spawn fails after the child was started (console bind fails, or the
\* control socket is not seen in time): the error is returned and the child
\* is neither killed nor kept in a handle.
SpawnFailLate(t) ==
    /\ At(t, "s_spawn")
    /\ \E sock \in BOOLEAN :
         sockets' = SocketsSpawnPrepared(sockets, req[t].id)
                      \cup (IF sock THEN {SocketPath(req[t].id)} ELSE {})
    /\ leaked' = leaked \cup {req[t].id}
    /\ Return(t, Err(t, "start", req[t].id, "FirecrackerError"))
    /\ UNCHANGED << catalog, vms, hv, phase, persisted, initQueue, nextId, acked,
                    interrupted, dropped,
                    console, client, spawn >>

\* Mutant: the instance is started before the root drive is added.
HvCallStepsStartEarly == << "s_machine", "s_boot", "s_instance", "s_drive", "s_persist" >>

\* configure_vm (configure_machine, set_boot_source, add_root_drive) and
\* firecracker::start_vm (start_instance), in this order.
HvCallSteps == << "s_machine", "s_boot", "s_drive", "s_instance", "s_persist" >>

\* The FirecrackerClient method each of the first four steps calls.
HvCalls == << "configure_machine", "set_boot_source", "add_root_drive",
             "start_instance" >>

HvAfterCall(label, h) ==
    CASE label = "s_drive"    -> "configured"
      [] label = "s_instance" -> "running"
      [] OTHER -> h

StartCallOk(t) ==
    /\ \E k \in 1..4 :
         /\ At(t, HvCallSteps[k])
         /\ HvReachable(req[t].id)
         /\ hv' = [hv EXCEPT ![req[t].id] = HvAfterCall(HvCallSteps[k], @)]
         /\ GotoCalling(t, HvCallSteps[k + 1], HvCalls[k])
    /\ UNCHANGED << leaked, catalog, vms, sockets, phase, persisted, initQueue, req,
                    nextId, acked, interrupted, dropped,
                    console, client, spawn >>

\* Mutant: the error is returned with `?`, the process is not killed.
StartCallFailNoKill(t) ==
    /\ \E k \in 1..4 :
         /\ At(t, HvCallSteps[k])
         /\ ReturnCalling(t, Err(t, "start", req[t].id, "FirecrackerError"),
                          HvCalls[k])
    /\ Quiet

\* Any of the four calls fails: let _ = process.kill(); return Err.
StartCallFail(t) ==
    /\ \E k \in 1..4 :
         /\ At(t, HvCallSteps[k])
         /\ ReturnCalling(t, Err(t, "start", req[t].id, "FirecrackerError"),
                          HvCalls[k])
    /\ hv' = HvAfterKill(hv, req[t].id)
    /\ sockets' = SocketsAfterKill(sockets, req[t].id)
    /\ UNCHANGED << leaked, catalog, vms, phase, persisted, initQueue, nextId, acked,
                    interrupted, dropped,
                    console, client, spawn >>

StartPersistOk(t) ==
    /\ At(t, "s_persist")
    /\ req[t].id \in DOMAIN catalog
    /\ catalog' = StoreUpdateState(catalog, req[t].id, "Running")
    /\ Goto(t, "s_commit")
    /\ UNCHANGED << vms, sockets, hv, leaked, phase, persisted, initQueue, req, nextId,
                    acked, interrupted, dropped,
                    console, client, spawn >>

StartPersistFail(t) ==
    /\ At(t, "s_persist")
    /\ hv' = HvAfterKill(hv, req[t].id)
    /\ sockets' = SocketsAfterKill(sockets, req[t].id)
    /\ Return(t, Err(t, "start", req[t].id, "PersistenceError"))
    /\ UNCHANGED << leaked, catalog, vms, phase, persisted, initQueue, nextId, acked,
                    interrupted, dropped,
                    console, client, spawn >>

SetState(entry, st) == [entry EXCEPT !.vm.state = st]

\* Mutant: the state is set but the handle is not stored.
StartCommitEntryNoHandle(entry) == SetState(entry, "Running")

\* entry.process = Some(process); entry.vm.state = Running; Ok(entry.vm.clone())
StartCommitEntry(entry) == [SetState(entry, "Running") EXCEPT !.process = "Some"]

StartCommit(t) ==
    /\ At(t, "s_commit")
    /\ vms' = [vms EXCEPT ![req[t].id] = StartCommitEntry(@)]
    /\ Return(t, Ok(t, "start", vms'[req[t].id].vm))
    /\ acked' = Ack(vms'[req[t].id].vm)
    /\ interrupted' = [interrupted EXCEPT ![req[t].id] = "none"]
    /\ UNCHANGED << catalog, sockets, hv, leaked, phase, persisted, initQueue, nextId,
                    dropped,
                    console, client, spawn >>

\* Paused: firecracker::resume_vm
ResumeOk(t) ==
    /\ At(t, "s_resume")
    /\ HvReachable(req[t].id)
    /\ hv' = [hv EXCEPT ![req[t].id] = "running"]
    /\ GotoCalling(t, "r_persist", "resume_instance")
    /\ UNCHANGED << leaked, catalog, vms, sockets, phase, persisted, initQueue, req,
                    nextId, acked, interrupted, dropped,
                    console, client, spawn >>

ResumeFail(t) ==
    /\ At(t, "s_resume")
    /\ ReturnCalling(t, Err(t, "start", req[t].id, "FirecrackerError"),
                     "resume_instance")
    /\ Quiet

ResumePersistOk(t) ==
    /\ At(t, "r_persist")
    /\ req[t].id \in DOMAIN catalog
    /\ catalog' = StoreUpdateState(catalog, req[t].id, "Running")
    /\ Goto(t, "r_commit")
    /\ UNCHANGED << vms, sockets, hv, leaked, phase, persisted, initQueue, req, nextId,
                    acked, interrupted, dropped,
                    console, client, spawn >>

\* let _ = firecracker::pause_vm(..): the rollback is best effort.
ResumePersistFail(t) ==
    /\ At(t, "r_persist")
    /\ \E undone \in BOOLEAN :
         hv' = IF undone /\ HvReachable(req[t].id)
               THEN [hv EXCEPT ![req[t].id] = "paused"] ELSE hv
    /\ ReturnCalling(t, Err(t, "start", req[t].id, "PersistenceError"),
                     "pause_instance")
    /\ UNCHANGED << leaked, catalog, vms, sockets, phase, persisted, initQueue, nextId,
                    acked, interrupted, dropped,
                    console, client, spawn >>

ResumeCommit(t) ==
    /\ At(t, "r_commit")
    /\ vms' = [vms EXCEPT ![req[t].id] = SetState(@, "Running")]
    /\ Return(t, Ok(t, "start", vms'[req[t].id].vm))
    /\ acked' = Ack(vms'[req[t].id].vm)
    /\ interrupted' = [interrupted EXCEPT ![req[t].id] = "none"]
    /\ UNCHANGED << catalog, sockets, hv, leaked, phase, persisted, initQueue, nextId,
                    dropped,
                    console, client, spawn >>

\* ---- stop_vm

StopNotFound(t, r) ==
    /\ Begins(t, r, "stop") /\ CanWrite
    /\ r.id \notin DOMAIN vms
    /\ Return(t, Err(t, "stop", r.id, "VmNotFound"))
    /\ Quiet

\* Mutant: the catalog is written before the state is looked at.
StopInvalidPersists(t, r) ==
    /\ Begins(t, r, "stop") /\ CanWrite
    /\ r.id \in DOMAIN vms /\ r.id \in DOMAIN catalog
    /\ vms[r.id].vm.state \notin {"Running", "Paused"}
    /\ catalog' = StoreUpdateState(catalog, r.id, "Stopped")
    /\ Return(t, ErrInvalidState(t, "stop", r.id, vms[r.id].vm.state))
    /\ UNCHANGED << vms, sockets, hv, leaked, phase, persisted, initQueue,
                    nextId, acked, interrupted, dropped,
                    console, client, spawn >>

StopInvalid(t, r) ==
    /\ Begins(t, r, "stop") /\ CanWrite
    /\ r.id \in DOMAIN vms
    /\ vms[r.id].vm.state \notin {"Running", "Paused"}
    /\ Return(t, ErrInvalidState(t, "stop", r.id, vms[r.id].vm.state))
    /\ Quiet

\* if let Some(process) = entry.process { process.kill() }
KillIfSome(entry, h, id) == IF entry.process = "Some" THEN HvAfterKill(h, id) ELSE h

SocketsKillIfSome(entry, fs, id) ==
    IF entry.process = "Some" THEN SocketsAfterKill(fs, id) ELSE fs

\* Mutant: stop puts the VM back into its initial state.
StopEntryResets(entry) == [SetState(entry, "Created") EXCEPT !.process = "None"]

\* Mutant: the handle is left in the entry.
StopEntryKeepsHandle(entry) == SetState(entry, "Stopped")

\* entry.process = None; entry.vm.state = Stopped
StopEntry(entry) == [SetState(entry, "Stopped") EXCEPT !.process = "None"]

\* Running | Paused: kill the process, clear the handle, set Stopped in memory.
StopKill(t, r) ==
    /\ Begins(t, r, "stop") /\ CanWrite
    /\ r.id \in DOMAIN vms
    /\ vms[r.id].vm.state \in {"Running", "Paused"}
    /\ hv' = KillIfSome(vms[r.id], hv, r.id)
    /\ sockets' = SocketsKillIfSome(vms[r.id], sockets, r.id)
    /\ vms' = [vms EXCEPT ![r.id] = StopEntry(@)]
    /\ req' = [req EXCEPT ![t] = r]
    /\ Enter(t, "st_persist")
    /\ UNCHANGED << leaked, catalog, phase, persisted, initQueue, nextId,
                    acked, interrupted, dropped,
                    console, client, spawn >>

StopPersistOk(t) ==
    /\ At(t, "st_persist")
    /\ req[t].id \in DOMAIN catalog
    /\ catalog' = StoreUpdateState(catalog, req[t].id, "Stopped")
    /\ Return(t, Ok(t, "stop", vms[req[t].id].vm))
    /\ acked' = Ack(vms[req[t].id].vm)
    /\ interrupted' = [interrupted EXCEPT ![req[t].id] = "none"]
    /\ UNCHANGED << vms, sockets, hv, leaked, phase, persisted, initQueue, nextId, dropped,
                    console, client, spawn >>

\* Mutant: the failed catalog write is surfaced with `?`.
StopPersistFailSurfaced(t) ==
    /\ At(t, "st_persist")
    /\ Return(t, Err(t, "stop", req[t].id, "PersistenceError"))
    /\ Quiet

\* update_state fails: tracing::error!, and Ok is returned all the same.
StopPersistFail(t) ==
    /\ At(t, "st_persist")
    /\ Return(t, OkLogged(t, "stop", vms[req[t].id].vm))
    /\ acked' = Ack(vms[req[t].id].vm)
    /\ interrupted' = [interrupted EXCEPT ![req[t].id] = "none"]
    /\ UNCHANGED << catalog, vms, sockets, hv, leaked, phase, persisted, initQueue, nextId,
                    dropped,
                    console, client, spawn >>

\* ---- pause_vm

PauseNotFound(t, r) ==
    /\ Begins(t, r, "pause") /\ CanWrite
    /\ r.id \notin DOMAIN vms
    /\ Return(t, Err(t, "pause", r.id, "VmNotFound"))
    /\ Quiet

PauseInvalid(t, r) ==
    /\ Begins(t, r, "pause") /\ CanWrite
    /\ r.id \in DOMAIN vms
    /\ vms[r.id].vm.state # "Running"
    /\ Return(t, ErrInvalidState(t, "pause", r.id, vms[r.id].vm.state))
    /\ Quiet

PauseBegin(t, r) ==
    /\ Begins(t, r, "pause") /\ CanWrite
    /\ r.id \in DOMAIN vms
    /\ vms[r.id].vm.state = "Running"
    /\ Enter(t, "p_call")
    /\ req' = [req EXCEPT ![t] = r]
    /\ Quiet

PauseCallOk(t) ==
    /\ At(t, "p_call")
    /\ HvReachable(req[t].id)
    /\ hv' = [hv EXCEPT ![req[t].id] = "paused"]
    /\ GotoCalling(t, "p_persist", "pause_instance")
    /\ UNCHANGED << leaked, catalog, vms, sockets, phase, persisted, initQueue, req,
                    nextId, acked, interrupted, dropped,
                    console, client, spawn >>

PauseCallFail(t) ==
    /\ At(t, "p_call")
    /\ ReturnCalling(t, Err(t, "pause", req[t].id, "FirecrackerError"),
                     "pause_instance")
    /\ Quiet

\* Mutant: the catalog write is left out.
PausePersistSkipped(t) ==
    /\ At(t, "p_persist")
    /\ Goto(t, "p_commit")
    /\ UNCHANGED << catalog, vms, sockets, hv, leaked, phase, persisted, initQueue, req,
                    nextId, acked, interrupted, dropped,
                    console, client, spawn >>

PausePersistOk(t) ==
    /\ At(t, "p_persist")
    /\ req[t].id \in DOMAIN catalog
    /\ catalog' = StoreUpdateState(catalog, req[t].id, "Paused")
    /\ Goto(t, "p_commit")
    /\ UNCHANGED << vms, sockets, hv, leaked, phase, persisted, initQueue, req, nextId,
                    acked, interrupted, dropped,
                    console, client, spawn >>

\* Mutant: the error is returned with `?`, the hypervisor stays paused.
PausePersistFailNoRollback(t) ==
    /\ At(t, "p_persist")
    /\ Return(t, Err(t, "pause", req[t].id, "PersistenceError"))
    /\ Quiet

\* let _ = firecracker::resume_vm(..): the rollback is best effort.
PausePersistFail(t) ==
    /\ At(t, "p_persist")
    /\ \E undone \in BOOLEAN :
         hv' = IF undone /\ HvReachable(req[t].id)
               THEN [hv EXCEPT ![req[t].id] = "running"] ELSE hv
    /\ ReturnCalling(t, Err(t, "pause", req[t].id, "PersistenceError"),
                     "resume_instance")
    /\ UNCHANGED << leaked, catalog, vms, sockets, phase, persisted, initQueue, nextId,
                    acked, interrupted, dropped,
                    console, client, spawn >>

PauseCommit(t) ==
    /\ At(t, "p_commit")
    /\ vms' = [vms EXCEPT ![req[t].id] = SetState(@, "Paused")]
    /\ Return(t, Ok(t, "pause", vms'[req[t].id].vm))
    /\ acked' = Ack(vms'[req[t].id].vm)
    /\ interrupted' = [interrupted EXCEPT ![req[t].id] = "none"]
    /\ UNCHANGED << catalog, sockets, hv, leaked, phase, persisted, initQueue, nextId,
                    dropped,
                    console, client, spawn >>

\* ---- delete_vm

\* Mutant: deleting an absent id reports success.
DeleteNotFoundOk(t, r) ==
    /\ Begins(t, r, "delete") /\ CanWrite
    /\ r.id \notin DOMAIN vms
    /\ Return(t, OkDeleted(t, r.id))
    /\ Quiet

DeleteNotFound(t, r) ==
    /\ Begins(t, r, "delete") /\ CanWrite
    /\ r.id \notin DOMAIN vms
    /\ Return(t, Err(t, "delete", r.id, "VmNotFound"))
    /\ Quiet

\* The process, if any, is killed before the catalog is touched.
DeleteKill(t, r) ==
    /\ Begins(t, r, "delete") /\ CanWrite
    /\ r.id \in DOMAIN vms
    /\ hv' = KillIfSome(vms[r.id], hv, r.id)
    /\ sockets' = SocketsKillIfSome(vms[r.id], sockets, r.id)
    /\ req' = [req EXCEPT ![t] = r]
    /\ Enter(t, "d_delete")
    /\ UNCHANGED << leaked, catalog, vms, phase, persisted, initQueue, nextId,
                    acked, interrupted, dropped,
                    console, client, spawn >>

DeleteStoreOk(t) ==
    /\ At(t, "d_delete")
    /\ catalog' = StoreDelete(catalog, req[t].id)
    /\ Goto(t, "d_remove")
    /\ UNCHANGED << vms, sockets, hv, leaked, phase, persisted, initQueue, req, nextId,
                    acked, interrupted, dropped,
                    console, client, spawn >>

\* Mutant: the entry is removed although the catalog delete failed.
DeleteStoreFailRemoves(t) ==
    /\ At(t, "d_delete")
    /\ vms' = Remove(vms, req[t].id)
    /\ Return(t, Err(t, "delete", req[t].id, "PersistenceError"))
    /\ UNCHANGED << catalog, sockets, hv, leaked, phase, persisted, initQueue,
                    nextId, acked, interrupted, dropped,
                    console, client, spawn >>

DeleteStoreFail(t) ==
    /\ At(t, "d_delete")
    /\ Return(t, Err(t, "delete", req[t].id, "PersistenceError"))
    /\ Quiet

DeleteRemove(t) ==
    /\ At(t, "d_remove")
    /\ vms' = Remove(vms, req[t].id)
    /\ Return(t, OkDeleted(t, req[t].id))
    /\ acked' = Put(acked, req[t].id,
                     [name |-> vms[req[t].id].vm.name, config |-> NoConfig,
                      state |-> "Deleted"])
    /\ interrupted' = [interrupted EXCEPT ![req[t].id] = "none"]
    /\ UNCHANGED << catalog, sockets, hv, leaked, phase, persisted, initQueue, nextId,
                    dropped,
                    console, client, spawn >>

\* ---- get_vm, list_vms: the read guard

GetVm(id) ==
    IF id \in DOMAIN vms THEN [kind |-> "Ok", vm |-> vms[id].vm]
                         ELSE [kind |-> "VmNotFound"]

ListVms == { vms[i].vm : i \in DOMAIN vms }

\* self.vms.read().await: granted while no writer holds the lock.
ReadBegin(t) ==
    /\ phase = "serving" /\ pc[t] = "idle"
    /\ lock.writer = 0
    /\ lock' = [lock EXCEPT !.readers = @ \cup {t}]
    /\ pc' = [pc EXCEPT ![t] = "reading"]
    /\ response' = NoResponse
    /\ issued' = NoCall
    /\ prior' = NoPrior
    /\ UNCHANGED req
    /\ Quiet

\* get_vm and list_vms look the registry up under the read guard and return.
Read(t, r) ==
    /\ pc[t] = "reading" /\ t \in lock.readers /\ r.op \in ReadOps
    /\ lock' = [lock EXCEPT !.readers = @ \ {t}]
    /\ pc' = [pc EXCEPT ![t] = "idle"]
    /\ response' =
         IF r.op = "list" THEN OkList(t, ListVms)
         ELSE IF GetVm(r.id).kind = "Ok"
              THEN Ok(t, "get", GetVm(r.id).vm)
              ELSE Err(t, "get", r.id, "VmNotFound")
    /\ issued' = NoCall
    /\ prior' = Snapshot
    /\ UNCHANGED req
    /\ Quiet

\* ---- with_db_path, initialize

\* VmManager::with_db_path and the first line of initialize: the registry is
\* empty and load_all has returned the catalog's records.
Boot ==
    /\ phase = "down"
    /\ phase' = "init"
    /\ persisted' = StoreLoadAll(catalog)
    /\ initQueue' = StoreLoadAll(catalog)
    /\ Silent
    /\ UNCHANGED << catalog, vms, sockets, hv, leaked, lock, pc, req, nextId,
                    acked, interrupted, dropped,
                    console, client, spawn >>

\* Mutant: Paused is taken for a state that survives a restart.
ReconcileOnlyRunning(vm) ==
    IF vm.state = "Running" THEN "Stopped" ELSE vm.state

\* reconcile_vm_state
ReconcileVmState(vm) ==
    IF vm.state \in {"Running", "Paused"} THEN "Stopped" ELSE vm.state

\* is_firecracker_alive: the control socket file exists.
IsFirecrackerAlive(vm) == vm.socket_path \in sockets

\* cleanup_orphaned_vm, called for Running | Paused when the socket exists:
\* the socket files are removed, nothing is signalled.
SocketsReconciled(vm) ==
    IF vm.state \in {"Running", "Paused"} /\ IsFirecrackerAlive(vm)
    THEN sockets \ {vm.socket_path}
    ELSE sockets

Reconciled(vm) == [vm EXCEPT !.state = ReconcileVmState(vm)]

\* One iteration of the loop of initialize.
InitRecordOk ==
    /\ phase = "init"
    /\ \E vm \in initQueue :
         /\ sockets' = SocketsReconciled(vm)
         /\ catalog' = IF vm.state # ReconcileVmState(vm)
                       THEN StoreSave(catalog, Reconciled(vm))
                       ELSE catalog
         /\ vms' = Put(vms, vm.id, VmEntry(Reconciled(vm), "None"))
         /\ initQueue' = initQueue \ {vm}
    /\ Silent
    /\ UNCHANGED << hv, leaked, phase, persisted, lock, pc, req, nextId,
                    acked, interrupted, dropped,
                    console, client, spawn >>

\* self.store.save(&vm)? fails: initialize returns the error and main exits.
InitRecordFail ==
    /\ phase = "init"
    /\ \E vm \in initQueue :
         /\ vm.state # ReconcileVmState(vm)
         /\ sockets' = SocketsReconciled(vm)
    /\ phase' = "down"
    /\ vms' = EmptyMap
    /\ persisted' = {}
    /\ initQueue' = {}
    /\ dropped' = NoDrop
    /\ Silent
    /\ UNCHANGED << catalog, hv, leaked, lock, pc, req, nextId, acked,
                    interrupted,
                    console, client, spawn >>

\* What clients see of the fleet once initialize has returned (main lists
\* the VMs right away): the loaded records; deletions stay known.
AckedAfterInit ==
    [ i \in (DOMAIN vms) \cup { j \in DOMAIN acked : acked[j].state = "Deleted" } |->
        IF i \in DOMAIN vms
        THEN [name |-> vms[i].vm.name, config |-> vms[i].vm.config,
              state |-> vms[i].vm.state]
        ELSE acked[i] ]

\* Mutant: the server starts while initialize is still in its loop.
InitDoneEarly ==
    /\ phase = "init"
    /\ phase' = "serving"
    /\ persisted' = {}
    /\ dropped' = NoDrop
    /\ acked' = AckedAfterInit
    /\ interrupted' = [i \in Ids |-> "none"]
    /\ Silent
    /\ UNCHANGED << catalog, vms, sockets, hv, leaked, initQueue, lock, pc, req,
                    nextId,
                    console, client, spawn >>

\* initialize returns Ok(()): requests are served from here on.
InitDone ==
    /\ phase = "init"
    /\ initQueue = {}
    /\ phase' = "serving"
    /\ persisted' = {}
    /\ dropped' = NoDrop
    /\ acked' = AckedAfterInit
    /\ interrupted' = [i \in Ids |-> "none"]
    /\ Silent
    /\ UNCHANGED << catalog, vms, sockets, hv, leaked, initQueue, lock, pc, req,
                    nextId,
                    console, client, spawn >>

\* ---- the process ends

\* Labels at which a start or a delete has committed to the catalog and has
\* not returned yet: what a client last heard of the VM is then behind the
\* catalog by a transition that restart does not map to the same state.
CommittedLabels == {"s_commit", "r_commit", "d_remove"}

InterruptedAfterKill ==
    IF lock.writer # 0 /\ pc[lock.writer] \in CommittedLabels
    THEN [interrupted EXCEPT ![req[lock.writer].id] = req[lock.writer].op]
    ELSE interrupted

ProcessGone ==
    /\ phase' = "down"
    /\ vms' = EmptyMap
    /\ persisted' = {}
    /\ initQueue' = {}
    /\ lock' = NoLock
    /\ pc' = [t \in Tasks |-> "idle"]
    /\ req' = [t \in Tasks |-> NoReq]
    /\ Silent
    /\ hv' = [i \in Ids |-> "none"]
    /\ leaked' = leaked \cup { i \in Ids : hv[i] # "none" }
    /\ UNCHANGED << catalog, sockets, nextId, acked,
                    console, client, spawn >>

\* The control plane is killed at any instant. Hypervisor children run in
\* their own session and survive it.
Crash ==
    /\ phase \in {"init", "serving"}
    /\ ProcessGone
    /\ interrupted' = InterruptedAfterKill
    /\ dropped' = NoDrop

ListedFields == { [id |-> vms[i].vm.id, name |-> vms[i].vm.name,
                   config |-> vms[i].vm.config] : i \in DOMAIN vms }

\* The manager is dropped with no request in flight (the restart tests).
DropManager ==
    /\ phase = "serving"
    /\ \A t \in Tasks : pc[t] = "idle"
    /\ ProcessGone
    /\ dropped' = [clean |-> TRUE, list |-> ListedFields, live |-> {}]
    /\ UNCHANGED interrupted

\* The ids whose entry holds a process handle.
Handles == { i \in DOMAIN vms : vms[i].process = "Some" }

\* The ids whose entry is Running or Paused.
LiveEntries == { i \in DOMAIN vms : vms[i].vm.state \in {"Running", "Paused"} }

\* shutdown(): kill on every process handle of the registry, nothing written
\* to the catalog; the server then stops and main returns. Taken with no
\* request in flight.
Shutdown ==
    /\ phase = "serving" /\ CanWrite
    /\ \A t \in Tasks : pc[t] = "idle"
    /\ hv' = [i \in Ids |-> IF i \in Handles THEN HvAfterKill(hv, i)[i] ELSE hv[i]]
    /\ sockets' = sockets \ { SocketPath(i) : i \in Handles }
    /\ phase' = "down"
    /\ vms' = EmptyMap
    /\ persisted' = {}
    /\ initQueue' = {}
    /\ lock' = NoLock
    /\ pc' = [t \in Tasks |-> "idle"]
    /\ req' = [t \in Tasks |-> NoReq]
    /\ response' = NoResponse
    /\ issued' = NoCall
    /\ prior' = Snapshot
    /\ dropped' = [clean |-> TRUE, list |-> ListedFields, live |-> LiveEntries]
    /\ UNCHANGED << catalog, leaked, nextId, acked, interrupted, console, client, spawn >>

\* ------------------------------------------------------------------ specification

TaskStep(t) ==
    \/ \E r \in Requests :
         \/ CreateConflict(t, r) \/ CreateBegin(t, r)
         \/ StartNotFound(t, r) \/ StartInvalid(t, r) \/ StartBegin(t, r)
         \/ StopNotFound(t, r) \/ StopInvalid(t, r) \/ StopKill(t, r)
         \/ PauseNotFound(t, r) \/ PauseInvalid(t, r) \/ PauseBegin(t, r)
         \/ DeleteNotFound(t, r) \/ DeleteKill(t, r)
         \/ Read(t, r)
    \/ ReadBegin(t)
    \/ CreateSaveOk(t)
    \/ CreateSaveFail(t) \/ CreateInsert(t)
    \/ SpawnOk(t) \/ SpawnFailEarly(t) \/ SpawnFailLate(t)
    \/ StartCallOk(t) \/ StartCallFail(t)
    \/ StartPersistOk(t) \/ StartPersistFail(t) \/ StartCommit(t)
    \/ ResumeOk(t) \/ ResumeFail(t)
    \/ ResumePersistOk(t) \/ ResumePersistFail(t) \/ ResumeCommit(t)
    \/ StopPersistOk(t) \/ StopPersistFail(t)
    \/ PauseCallOk(t) \/ PauseCallFail(t)
    \/ PausePersistOk(t) \/ PausePersistFail(t) \/ PauseCommit(t)
    \/ DeleteStoreOk(t) \/ DeleteStoreFail(t) \/ DeleteRemove(t)


Next ==
    \/ Boot \/ InitRecordOk \/ InitRecordFail \/ InitDone
    \/ Crash \/ DropManager \/ Shutdown
    \/ \E t \in Tasks : TaskStep(t)

Spec == Init /\ [][Next]_vars

\* ------------------------------------------------------------------ api.rs

ErrorKinds == { "VmNotFound", "VmAlreadyExists", "InvalidState",
                "FirecrackerError", "PersistenceError" }

\* Mutant: an unknown id is reported as an internal error.
ErrorToResponseAs500(kind) ==
    CASE kind = "VmAlreadyExists"  -> [status |-> 409, error |-> "conflict"]
      [] kind = "InvalidState"     -> [status |-> 400, error |-> "invalid_state"]
      [] kind = "FirecrackerError" -> [status |-> 500, error |-> "firecracker_error"]
      [] OTHER                     -> [status |-> 500, error |-> "persistence_error"]

\* error_to_response: status code and ApiError.error for a VmManagerError.
ErrorToResponse(kind) ==
    CASE kind = "VmNotFound"       -> [status |-> 404, error |-> "not_found"]
      [] kind = "VmAlreadyExists"  -> [status |-> 409, error |-> "conflict"]
      [] kind = "InvalidState"     -> [status |-> 400, error |-> "invalid_state"]
      [] kind = "FirecrackerError" -> [status |-> 500, error |-> "firecracker_error"]
      [] kind = "PersistenceError" -> [status |-> 500, error |-> "persistence_error"]

\* Mutant: a paused VM's console is reported available as well.
ConsoleInfoWhilePaused(vm) ==
    [ vm_id |-> vm.id, console_socket_path |-> vm.console_socket_path,
      log_path |-> vm.log_path,
      available |-> vm.state \in {"Running", "Paused"} ]

\* The ConsoleInfo body get_console_info builds from the Vm get_vm returned.
ConsoleInfo(vm) ==
    [ vm_id |-> vm.id, console_socket_path |-> vm.console_socket_path,
      log_path |-> vm.log_path, available |-> vm.state = "Running" ]

\* get_console_info, given the result of manager.get_vm(&id).
GetConsoleInfo(result) ==
    IF result.kind = "Ok"
    THEN [status |-> 200, body |-> ConsoleInfo(result.vm)]
    ELSE [status |-> ErrorToResponse(result.kind).status,
          body |-> ErrorToResponse(result.kind)]

\* ------------------------------------------------------------------ FirecrackerClient

ClientCalls == { "configure_machine", "set_boot_source", "add_root_drive",
                 "start_instance", "pause_instance", "resume_instance" }

\* Status codes the hypervisor answers with.
Statuses == { 200, 204, 400 }

\* The start of the status line for a status code.
StatusLine(st) ==
    CASE st = 200 -> "HTTP/1.1 200"
      [] st = 204 -> "HTTP/1.1 204"
      [] st = 400 -> "HTTP/1.1 400"

\* Pieces of text a response body is made of: a fault message may quote
\* whatever the request carried.
BodyTexts == { "fault_message", "HTTP/1.1 200" }

Bodies == UNION { [1..n -> BodyTexts] : n \in 0..MaxBody }

\* The String send_request returns: the header lines, then the body.
ResponseText(st, body) == << StatusLine(st), "\r\n" >> \o body

\* str::contains over the pieces of a text.
Contains(text, needle) == \E n \in 1..Len(text) : text[n] = needle

\* The check every call makes on the text send_request returned.
Accepted(text) == Contains(text, "HTTP/1.1 204") \/ Contains(text, "HTTP/1.1 200")

everythingButClient == << catalog, vms, sockets, hv, leaked, phase, persisted,
                         initQueue, lock, pc, req, nextId, response, issued,
                         prior, acked, interrupted, dropped, console, spawn >>

\* One of the six calls: UnixStream::connect succeeds, the request is written.
ClientConnect ==
    /\ client.pc = "idle"
    /\ \E call \in ClientCalls :
         client' = [client EXCEPT !.pc = "sent", !.call = call]
    /\ UNCHANGED everythingButClient

\* UnixStream::connect fails: FirecrackerError::SocketConnection.
ClientConnectFail ==
    /\ client.pc = "idle"
    /\ \E call \in ClientCalls :
         client' = [client EXCEPT !.pc = "returned", !.call = call,
                                  !.result = "SocketConnection"]
    /\ UNCHANGED everythingButClient

\* Writing the request or reading the response fails or times out: `?`.
ClientIoFail ==
    /\ client.pc = "sent"
    /\ client' = [client EXCEPT !.pc = "returned", !.result = "Io"]
    /\ UNCHANGED everythingButClient

\* The hypervisor's response has been read: header lines and body.
ClientRespond ==
    /\ client.pc = "sent"
    /\ \E st \in Statuses, body \in Bodies :
         client' = [client EXCEPT !.pc = "read", !.status = st, !.body = body]
    /\ UNCHANGED everythingButClient

\* if !response.contains("HTTP/1.1 204") && !response.contains("HTTP/1.1 200")
ClientCheck ==
    /\ client.pc = "read"
    /\ client' = [client EXCEPT
           !.pc = "returned",
           !.result = IF Accepted(ResponseText(client.status, client.body))
                      THEN "Ok" ELSE "ApiRequest"]
    /\ UNCHANGED everythingButClient

\* The caller has the result; the next call uses a new connection.
ClientDone ==
    /\ client.pc = "returned"
    /\ client' = ClientStart
    /\ UNCHANGED everythingButClient

ClientNext ==
    \/ ClientConnect \/ ClientConnectFail \/ ClientIoFail
    \/ ClientRespond \/ ClientCheck \/ ClientDone

\* One FirecrackerClient and the hypervisor it talks to.
ClientSpec == Init /\ [][ClientNext]_vars

\* ------------------------------------------------------------------ console_proxy_loop

\* Everything but the console thread's own state.
managerVars == << catalog, vms, sockets, hv, leaked, phase, persisted, initQueue,
                 lock, pc, req, nextId, response, issued, prior, acked,
                 interrupted, dropped, client, spawn >>

ConsoleAt(label) == console.pc = label

Prefixes(q) == { SubSeq(q, 1, n) : n \in 0..Len(q) }

RemoveAt(q, i) == SubSeq(q, 1, i - 1) \o SubSeq(q, i + 1, Len(q))

\* The accepted stream is left in blocking mode while the log is replayed.
ConsoleAcceptBlocking ==
    /\ ConsoleAt("accept") /\ console.running
    /\ \E c \in Clients \ console.known :
         console' = [console EXCEPT !.pc = "replay",
                                    !.known = @ \cup {c},
                                    !.pending = c,
                                    !.had[c] = console.log,
                                    !.seen[c] = console.next]
    /\ UNCHANGED managerVars

\* listener.accept() returns a stream, which is switched to non-blocking
\* mode at once: stream.set_nonblocking(true).ok().
ConsoleAccept ==
    /\ ConsoleAt("accept") /\ console.running
    /\ \E c \in Clients \ console.known :
         console' = [console EXCEPT !.pc = "replay",
                                    !.known = @ \cup {c},
                                    !.pending = c,
                                    !.nonblocking = @ \cup {c},
                                    !.had[c] = console.log,
                                    !.seen[c] = console.next]
    /\ UNCHANGED managerVars

\* What s.write_all(&log_content) can deliver: all of it on a blocking
\* stream; on a non-blocking one the write stops with WouldBlock once the
\* socket buffer is full, and the result is discarded.
ReplayOutcomes(c) ==
    IF c \in console.nonblocking THEN Prefixes(console.log) ELSE {console.log}

\* On a blocking stream write_all does not return while the peer leaves
\* its receive buffer full: the thread stays inside the call.
ReplayBlocks(c) == c \notin console.nonblocking /\ console.log # << >>

\* The log file is read and written to the new client, then the client
\* joins `clients` whatever the write returned (let _ = s.write_all(..)).
\* `failed` remembers the clients a write to which returned Err.
ConsoleReplay ==
    /\ ConsoleAt("replay")
    /\ LET c == console.pending IN
         \E sent \in ReplayOutcomes(c), stuck \in BOOLEAN :
            IF stuck /\ ReplayBlocks(c)
            THEN console' = [console EXCEPT !.pc = "blocked"]
            ELSE console' = [console EXCEPT
                                !.pc = "read",
                                !.pending = 0,
                                !.replayed[c] = sent,
                                !.failed = IF sent = console.log
                                           THEN @ ELSE @ \cup {c},
                                !.clients = Append(@, c)]
    /\ UNCHANGED managerVars

\* listener.accept() returns WouldBlock: no client is waiting.
ConsoleAcceptNone ==
    /\ ConsoleAt("accept") /\ console.running
    /\ console' = [console EXCEPT !.pc = "read"]
    /\ UNCHANGED managerVars

\* while running.load(..): kill has cleared the flag, the loop ends.
ConsoleStop ==
    /\ ConsoleAt("accept") /\ ~console.running
    /\ console' = [console EXCEPT !.pc = "done"]
    /\ UNCHANGED managerVars

\* master_reader.read returns Ok(n): the next chunk of guest output.
ConsoleReadChunk ==
    /\ ConsoleAt("read")
    /\ console.next <= MaxChunks
    /\ console' = [console EXCEPT !.pc = "log", !.data = console.next,
                                   !.next = @ + 1]
    /\ UNCHANGED managerVars

\* master_reader.read returns WouldBlock.
ConsoleReadNothing ==
    /\ ConsoleAt("read")
    /\ console' = [console EXCEPT !.pc = "input"]
    /\ UNCHANGED managerVars

\* master_reader.read returns Ok(0) or another error: break.
ConsoleReadClosed ==
    /\ ConsoleAt("read")
    /\ console' = [console EXCEPT !.pc = "done"]
    /\ UNCHANGED managerVars

\* let _ = log_file.write_all(data); let _ = log_file.flush(); both succeed.
ConsoleLogOk ==
    /\ ConsoleAt("log")
    /\ console' = [console EXCEPT !.pc = "send", !.pos = 1,
                                   !.log = Append(@, console.data)]
    /\ UNCHANGED managerVars

\* write_all fails; the result is discarded and the loop goes on.
ConsoleLogFail ==
    /\ ConsoleAt("log")
    /\ console' = [console EXCEPT !.pc = "send", !.pos = 1]
    /\ UNCHANGED managerVars

\* clients.retain_mut: client.write_all(data) is Ok, the client is kept.
ConsoleSendOk ==
    /\ ConsoleAt("send") /\ console.pos <= Len(console.clients)
    /\ LET c == console.clients[console.pos] IN
         console' = [console EXCEPT !.pos = @ + 1,
                                    !.received[c] = Append(@, console.data)]
    /\ UNCHANGED managerVars

\* client.write_all(data) is Err: the client is dropped from `clients`.
ConsoleSendFail ==
    /\ ConsoleAt("send") /\ console.pos <= Len(console.clients)
    /\ console' = [console EXCEPT
                        !.clients = RemoveAt(@, console.pos),
                        !.failed = @ \cup {console.clients[console.pos]}]
    /\ UNCHANGED managerVars

\* Every client has been tried.
ConsoleSendDone ==
    /\ ConsoleAt("send") /\ console.pos > Len(console.clients)
    /\ console' = [console EXCEPT !.pc = "input", !.pos = 0, !.data = 0]
    /\ UNCHANGED managerVars

\* Client input is copied to the PTY master; sleep; next iteration.
ConsoleInput ==
    /\ ConsoleAt("input")
    /\ console' = [console EXCEPT !.pc = "accept"]
    /\ UNCHANGED managerVars

\* What a kill leaves behind, as its caller can observe it.
Observed ==
    [ taken |-> TRUE, running |-> console.running, child |-> console.child,
      worker |-> console.pc, api |-> console.api, sock |-> console.sock,
      logfile |-> console.logfile, log |-> console.log ]

\* Mutant: the flag is flipped instead of cleared.
ConsoleKillFlips ==
    /\ console.killpc = "idle" /\ console.kills < MaxKills
    /\ console' = [console EXCEPT !.running = ~console.running,
                                   !.child = "killed",
                                   !.killpc = "join",
                                   !.kept = IF console.kills = 0
                                            THEN console.log ELSE @]
    /\ UNCHANGED managerVars

\* FirecrackerProcess::kill: self.running.store(false, ..); self.child.kill()?
ConsoleKill ==
    /\ console.killpc = "idle" /\ console.kills < MaxKills
    /\ console' = [console EXCEPT !.running = FALSE,
                                   !.child = "killed",
                                   !.killpc = "join",
                                   !.kept = IF console.kills = 0
                                            THEN console.log ELSE @]
    /\ UNCHANGED managerVars

\* The rest of kill, given what it leaves: both socket files removed,
\* the thread handle taken, Ok(()) returned.
KillReturned ==
    LET after == [console EXCEPT !.joined = TRUE, !.api = FALSE,
                                  !.sock = FALSE, !.killpc = "idle",
                                  !.kills = @ + 1]
    IN  [after EXCEPT !.first =
            IF console.kills = 0
            THEN [ taken |-> TRUE, running |-> after.running,
                   child |-> after.child, worker |-> after.pc,
                   api |-> after.api, sock |-> after.sock,
                   logfile |-> after.logfile, log |-> after.log ]
            ELSE @]

\* Mutant: the thread handle is dropped without joining it.
ConsoleKillNoJoin ==
    /\ console.killpc = "join"
    /\ console' = KillReturned
    /\ UNCHANGED managerVars

\* if let Some(handle) = self.console_thread.take() { handle.join() }: kill
\* waits for the loop to end (a second kill finds the handle taken), then
\* removes the socket files.
ConsoleKillJoin ==
    /\ console.killpc = "join"
    /\ console.joined \/ ConsoleAt("done")
    /\ console' = KillReturned
    /\ UNCHANGED managerVars

ConsoleNext ==
    \/ ConsoleAccept \/ ConsoleReplay \/ ConsoleAcceptNone \/ ConsoleStop
    \/ ConsoleReadChunk \/ ConsoleReadNothing \/ ConsoleReadClosed
    \/ ConsoleLogOk \/ ConsoleLogFail
    \/ ConsoleSendOk \/ ConsoleSendFail \/ ConsoleSendDone
    \/ ConsoleInput \/ ConsoleKill \/ ConsoleKillJoin

\* One console thread from its start by spawn to its end.
ConsoleSpec == Init /\ [][ConsoleNext]_vars

\* The steps of the console thread itself.
ConsoleThread ==
    \/ ConsoleAccept \/ ConsoleReplay \/ ConsoleAcceptNone \/ ConsoleStop
    \/ ConsoleReadChunk \/ ConsoleReadNothing \/ ConsoleReadClosed
    \/ ConsoleLogOk \/ ConsoleLogFail
    \/ ConsoleSendOk \/ ConsoleSendFail \/ ConsoleSendDone
    \/ ConsoleInput

\* The console thread and the caller of kill are operating-system threads:
\* each keeps being scheduled, so a step that can be taken is taken.
ConsoleFairSpec ==
    ConsoleSpec /\ WF_vars(ConsoleThread) /\ WF_vars(ConsoleKillJoin)

\* ------------------------------------------------------------------ spawn

\* for _ in 0..50: the number of times spawn looks for the control socket.
MaxPolls == 50

spawnFrame == << catalog, vms, sockets, hv, leaked, phase, persisted, initQueue,
                 lock, pc, req, nextId, response, issued, prior, acked,
                 interrupted, dropped, console, client >>

\* start_vm calls spawn: the socket files are removed, the log file is
\* opened, the PTY is made and the child is started. The log file and
\* Command::spawn fail with an io error, openpty with SocketConnection.
SpawnCalled(t) ==
    /\ At(t, "s_spawn") /\ spawn.pc = "idle"
    /\ \E out \in {"child", "Io", "SocketConnection"} :
         spawn' = IF out = "child"
                  THEN [spawn EXCEPT !.pc = "bind", !.child = TRUE]
                  ELSE [spawn EXCEPT !.pc = "done", !.result = out]
    /\ UNCHANGED spawnFrame

\* UnixListener::bind and set_nonblocking, then thread::spawn of the
\* console thread; a failure returns SocketConnection with the child running.
SpawnBind ==
    /\ spawn.pc = "bind"
    /\ \E ok \in BOOLEAN :
         spawn' = IF ok
                  THEN [spawn EXCEPT !.pc = "poll", !.thread = TRUE]
                  ELSE [spawn EXCEPT !.pc = "done",
                                     !.result = "SocketConnection"]
    /\ UNCHANGED spawnFrame

\* The hypervisor child creates its API socket, whenever it gets to it.
HypervisorListens ==
    /\ spawn.child /\ ~spawn.api
    /\ spawn' = [spawn EXCEPT !.api = TRUE]
    /\ UNCHANGED spawnFrame

\* Mutant: the handle is returned without looking for the socket.
SpawnPollBlind ==
    /\ spawn.pc = "poll" /\ spawn.polls < MaxPolls
    /\ spawn' = [spawn EXCEPT !.pc = "done", !.result = "Ok"]
    /\ UNCHANGED spawnFrame

\* Path::new(socket_path).exists() is true: return Ok(Self { .. }).
SpawnPollSeen ==
    /\ spawn.pc = "poll" /\ spawn.polls < MaxPolls
    /\ spawn.api
    /\ spawn' = [spawn EXCEPT !.pc = "done", !.result = "Ok"]
    /\ UNCHANGED spawnFrame

\* exists() is false: sleep 100 ms and look again.
SpawnPollMiss ==
    /\ spawn.pc = "poll" /\ spawn.polls < MaxPolls
    /\ ~spawn.api
    /\ spawn' = [spawn EXCEPT !.polls = @ + 1]
    /\ UNCHANGED spawnFrame

\* The loop has run out: Err(SocketConnection("Socket not available ..")).
SpawnPollTimeout ==
    /\ spawn.pc = "poll" /\ spawn.polls = MaxPolls
    /\ spawn' = [spawn EXCEPT !.pc = "done", !.result = "SocketConnection"]
    /\ UNCHANGED spawnFrame

\* spawn(..)? in start_vm: a handle lets start go on; an error is returned
\* as FirecrackerError, with the child (if one was started) left running.
SpawnReturns(t) ==
    /\ spawn.pc = "done"
    /\ IF spawn.result = "Ok" THEN SpawnOk(t)
       ELSE IF spawn.child
            THEN /\ SpawnFailLate(t)
                 /\ (SocketPath(req[t].id) \in sockets') = spawn.api
            ELSE SpawnFailEarly(t)

SpawnNext ==
    \/ Boot \/ InitDone
    \/ \E t \in Tasks :
         \/ \E r \in Requests : CreateBegin(t, r) \/ StartBegin(t, r)
         \/ CreateSaveOk(t) \/ CreateInsert(t)
         \/ SpawnCalled(t) \/ SpawnReturns(t)
    \/ SpawnBind \/ HypervisorListens
    \/ SpawnPollSeen \/ SpawnPollMiss \/ SpawnPollTimeout

\* One start of a VM, with its call of spawn taken step by step.
SpawnSpec == Init /\ [][SpawnNext]_vars

\* ------------------------------------------------------------------ claims

StateInCatalog(id) == Deserialize(catalog[id]).state

\* Catalog and registry agree on id: present in both with the same state, or
\* absent from both.
Agree(id) ==
    /\ id \in DOMAIN vms <=> id \in DOMAIN catalog
    /\ id \in DOMAIN vms => StateInCatalog(id) = vms[id].vm.state

ReturnedOk(ops) == response.kind = "Ok" /\ response.op \in ops

\* C1: a registry entry holds a process handle only if its in-memory state is
\* Running or Paused, in every reachable state, whatever calls succeeded or
\* failed before.
C1_HandleOnlyWhenLive ==
    \A i \in DOMAIN vms :
        vms[i].process = "Some" => vms[i].vm.state \in {"Running", "Paused"}

\* A paused VM holds its handle while another call on it has just failed.
C1_Witness ==
    /\ \E i \in DOMAIN vms : vms[i].process = "Some" /\ vms[i].vm.state = "Paused"
    /\ response.kind \in {"FirecrackerError", "PersistenceError"}

\* C2 as stated: after any successful create, start, stop, pause or delete the
\* catalog and the registry agree on the VM (for delete: absent from both).
C2_AgreeAfterEverySuccess ==
    ReturnedOk(WriteOps) => Agree(response.id)

\* C2 amended: the same, except for a stop whose catalog write failed and was
\* only logged: then the registry holds Stopped and the catalog still holds
\* the Running or Paused state the VM had before the stop.
C2_AgreeAfterSuccessUnlessStopLogged ==
    ReturnedOk(WriteOps) =>
        IF response.error_logged
        THEN /\ response.op = "stop"
             /\ response.id \in DOMAIN vms /\ response.id \in DOMAIN catalog
             /\ vms[response.id].vm.state = "Stopped"
             /\ StateInCatalog(response.id) \in {"Running", "Paused"}
        ELSE Agree(response.id)

\* A stop has returned Ok after its catalog write failed; and a delete has
\* returned Ok.
C2_Witness ==
    /\ ReturnedOk({"stop"}) /\ response.error_logged
    /\ \E i \in DOMAIN acked : acked[i].state = "Deleted"

\* The operation of the task holding the write guard.
Writer == lock.writer

CommitTarget(label) ==
    CASE label = "s_commit" -> "Running"
      [] label = "r_commit" -> "Running"
      [] label = "p_commit" -> "Paused"
      [] OTHER -> "none"

\* C3: in start and pause the catalog holds the new state before the registry
\* does and before success is returned; a success that leaves the catalog on
\* the old state is returned by stop after a failed catalog write only.
C3_CatalogFirst ==
    /\ ReturnedOk({"start", "pause"}) =>
          /\ response.id \in DOMAIN catalog
          /\ StateInCatalog(response.id) = response.vm.state
    /\ \A i \in (DOMAIN vms) \cap (DOMAIN catalog) :
          StateInCatalog(i) # vms[i].vm.state =>
              \/ vms[i].vm.state = "Stopped"
              \/ /\ Writer # 0 /\ req[Writer].id = i
                 /\ StateInCatalog(i) = CommitTarget(pc[Writer])
    /\ (ReturnedOk(WriteOps) /\ ~Agree(response.id)) =>
          (response.op = "stop" /\ response.error_logged)

\* A pause has committed Paused to the catalog while the registry still says
\* Running.
C3_Witness ==
    \E t \in Tasks :
        /\ At(t, "p_commit")
        /\ StateInCatalog(req[t].id) = "Paused"
        /\ vms[req[t].id].vm.state = "Running"

\* initialize has gone through every record and is about to return Ok(()).
InitFinished == phase = "init" /\ initQueue = {}

SameVm(i) ==
    /\ i \in DOMAIN vms
    /\ vms[i].vm.id = i
    /\ vms[i].vm.name = acked[i].name
    /\ vms[i].vm.config = acked[i].config

\* A delete of i has reached the catalog: it was acknowledged, or a kill cut
\* it between its catalog commit and its return.
DeleteCommitted(i) == acked[i].state = "Deleted" \/ interrupted[i] = "delete"

\* C4 as stated: after a kill at any step and a restart, a VM whose create was
\* acknowledged and that was not deleted is present with the same id, name
\* and config; a deleted one is absent; one last acknowledged Created or
\* Stopped has that state; one last acknowledged Running or Paused is Stopped.
C4_AcknowledgedSurvivesKill ==
    InitFinished =>
        \A i \in DOMAIN acked :
            IF DeleteCommitted(i) THEN i \notin DOMAIN vms
            ELSE /\ SameVm(i)
                 /\ acked[i].state \in {"Created", "Stopped"} =>
                        vms[i].vm.state = acked[i].state
                 /\ acked[i].state \in {"Running", "Paused"} =>
                        vms[i].vm.state = "Stopped"

\* C4 amended: the same, where a VM counts as deleted once a delete of it has
\* reached the catalog (acknowledged or not), and except that a VM last
\* acknowledged as Created is Stopped, not Created, when the kill cut a start
\* of it between the catalog commit of Running and the return.
C4_AcknowledgedSurvivesKillUnlessCut ==
    InitFinished =>
        \A i \in DOMAIN acked :
            IF DeleteCommitted(i) THEN i \notin DOMAIN vms
            ELSE /\ SameVm(i)
                 /\ acked[i].state = "Stopped" => vms[i].vm.state = "Stopped"
                 /\ acked[i].state = "Created" =>
                        vms[i].vm.state =
                            IF interrupted[i] = "start" THEN "Stopped" ELSE "Created"
                 /\ acked[i].state \in {"Running", "Paused"} =>
                        vms[i].vm.state = "Stopped"

\* After a kill in the middle of an operation: one VM acknowledged Running is
\* back as Stopped, another acknowledged Created is back as Created.
C4_Witness ==
    /\ InitFinished /\ ~dropped.clean
    /\ \E i \in DOMAIN acked : acked[i].state = "Running" /\ SameVm(i)
    /\ \E i \in DOMAIN acked :
          acked[i].state = "Created" /\ SameVm(i) /\ vms[i].vm.state = "Created"

ExpectedAfterInit(st) == IF st \in {"Created", "Stopped"} THEN st ELSE "Stopped"

\* C5: after a successful initialize every VM persisted as Created or Stopped
\* has that state and every VM persisted as Running or Paused is Stopped, in
\* the registry and in the catalog alike, with or without a control socket
\* file; no loaded entry has a process handle.
C5_RestartFidelity ==
    InitFinished =>
        /\ \A vm \in persisted :
              /\ vm.id \in DOMAIN vms /\ vm.id \in DOMAIN catalog
              /\ vms[vm.id].vm.state = ExpectedAfterInit(vm.state)
              /\ StateInCatalog(vm.id) = ExpectedAfterInit(vm.state)
        /\ \A i \in DOMAIN vms : vms[i].process = "None"

\* Loaded: a Paused VM whose hypervisor is still alive, and a Running VM
\* whose hypervisor is gone.
C5_Witness ==
    /\ InitFinished
    /\ \E vm \in persisted : vm.state = "Paused" /\ vm.id \in leaked
    /\ \E vm \in persisted : vm.state = "Running" /\ vm.id \notin leaked

\* C6: VMs created through one manager, the manager dropped, a new manager
\* opened on the same catalog and initialized: list holds exactly those VMs,
\* each with the id, name, vcpu_count and mem_size_mib it had.
C6_ListSurvivesReopen ==
    (InitFinished /\ dropped.clean) => ListedFields = dropped.list

\* A manager that listed as many VMs as ids exist was dropped and reopened.
C6_Witness ==
    InitFinished /\ dropped.clean /\ Cardinality(dropped.list) = MaxIds

Deleted == { i \in DOMAIN acked : acked[i].state = "Deleted" }

\* C7: once delete(id) has returned success the VM never reappears: get(id)
\* is VmNotFound and list omits it, in the same manager and after any number
\* of restarts.
C7_DeletedStaysGone ==
    \A i \in Deleted :
        /\ i \notin DOMAIN vms
        /\ GetVm(i).kind = "VmNotFound"
        /\ \A vm \in ListVms : vm.id # i
        /\ i \notin DOMAIN catalog
        /\ \A vm \in persisted : vm.id # i

\* A deleted VM stays away from a restarted manager that has loaded another.
C7_Witness ==
    /\ InitFinished
    /\ Deleted # {}
    /\ DOMAIN vms # {}

NamesUnique ==
    \A i, j \in DOMAIN vms : i # j => vms[i].vm.name # vms[j].vm.name

\* C8: no two registry entries ever have the same name; a create whose name
\* an existing VM has fails with VmAlreadyExists and changes neither registry
\* nor catalog; a create goes ahead, and succeeds, only for a name no other
\* entry has, so of two creates with one name at most one succeeds.
C8_NameUniqueness ==
    [][ /\ NamesUnique'
        /\ response'.kind = "VmAlreadyExists" =>
               /\ NameExists(response'.name)
               /\ vms' = vms /\ catalog' = catalog /\ nextId' = nextId
        /\ \A t \in Tasks :
               (pc[t] = "idle" /\ pc'[t] = "c_save") => ~NameExists(req'[t].name)
        /\ (response'.kind = "Ok" /\ response'.op = "create") =>
               { i \in DOMAIN vms' : vms'[i].vm.name = response'.vm.name }
                   = {response'.id}
      ]_vars

\* A create was refused with VmAlreadyExists while two VMs exist.
C8_Witness ==
    /\ response.kind = "VmAlreadyExists"
    /\ Cardinality(DOMAIN vms) = MaxIds

UsedIds ==
    (DOMAIN vms) \cup (DOMAIN catalog) \cup (DOMAIN acked)
        \cup { req[t].id : t \in Tasks } \cup { vm.id : vm \in persisted }

\* C9: a successful create returns a VM in state Created with a freshly
\* allocated id and no process handle; a get on that id, while the VM exists,
\* returns the same id, name and config.
C9_CreateThenGet ==
    /\ \A i \in UsedIds : i < nextId
    /\ ReturnedOk({"create"}) =>
          /\ response.vm.state = "Created"
          /\ response.id = nextId - 1
          /\ response.id \in DOMAIN vms
          /\ vms[response.id].process = "None"
          /\ GetVm(response.id) = [kind |-> "Ok", vm |-> response.vm]
    /\ (phase = "serving" /\ lock.writer = 0) =>
          \A i \in (DOMAIN acked) \ Deleted :
              /\ GetVm(i).kind = "Ok"
              /\ GetVm(i).vm.id = i
              /\ GetVm(i).vm.name = acked[i].name
              /\ GetVm(i).vm.config = acked[i].config
    /\ ReturnedOk({"get"}) =>
          /\ response.id \in (DOMAIN acked) \ Deleted
          /\ response.vm.id = response.id
          /\ response.vm.name = acked[response.id].name
          /\ response.vm.config = acked[response.id].config

\* A get returned the second VM after it had been started.
C9_Witness ==
    /\ ReturnedOk({"get"})
    /\ response.id = MaxIds
    /\ response.vm.state = "Running"

\* C10: between operations list returns exactly the ids that were created
\* successfully or loaded by initialize and not yet deleted successfully;
\* start, stop and pause add and remove none.
C10_ListIsLiveSet ==
    /\ (phase = "serving" /\ lock.writer = 0) =>
          { vm.id : vm \in ListVms } = (DOMAIN acked) \ Deleted
    /\ ReturnedOk({"list"}) =>
          { vm.id : vm \in response.list } = (DOMAIN acked) \ Deleted
    /\ ReturnedOk({"start", "stop", "pause"}) =>
          { vm.id : vm \in ListVms } = (DOMAIN acked) \ Deleted

\* list returned one VM while another had been deleted.
C10_Witness ==
    /\ ReturnedOk({"list"})
    /\ Cardinality(response.list) = 1
    /\ Deleted # {}

\* The operation that has just returned, or is running, found this state.
NothingChanged ==
    /\ vms = prior.vms /\ catalog = prior.catalog
    /\ hv = prior.hv /\ leaked = prior.leaked /\ sockets = prior.sockets
    /\ issued = NoCall

ByIdOps == {"get", "start", "stop", "pause", "delete"}

Returned == response.kind # "none"

\* C11: get, start, stop, pause and delete on an id that is not in the
\* registry return VmNotFound (delete reports no success) and leave registry,
\* catalog and processes as they were; none of them goes ahead on such an id.
C11_NotFoundNoEffect ==
    /\ (Returned /\ response.kind = "VmNotFound") =>
          /\ response.op \in ByIdOps
          /\ response.id \notin DOMAIN prior.vms
          /\ NothingChanged
    /\ (Returned /\ response.op \in ByIdOps
           /\ response.id \notin DOMAIN prior.vms) =>
          response.kind = "VmNotFound"
    /\ \A t \in Tasks :
          (pc[t] # "idle" /\ req[t].op \in ByIdOps) =>
              req[t].id \in DOMAIN prior.vms

\* A delete of an absent id was refused while another VM was running.
C11_Witness ==
    /\ response.kind = "VmNotFound" /\ response.op = "delete"
    /\ \E i \in DOMAIN vms : vms[i].vm.state = "Running" /\ hv[i] = "running"

\* The transitions the state machine has no edge for.
Illegal(op, st) ==
    \/ op = "stop" /\ st \in {"Created", "Stopped"}
    \/ op = "pause" /\ st \in {"Created", "Paused", "Stopped"}
    \/ op = "start" /\ st = "Running"

StateBefore(id) == prior.vms[id].vm.state

\* C12: an illegal transition (stop on Created or Stopped, pause on Created,
\* Paused or Stopped, start on Running) returns InvalidState with the current
\* state, makes no hypervisor call, spawns and kills nothing and leaves the
\* state in memory and in the catalog as it was; it is never carried out.
C12_IllegalTransitionNoEffect ==
    /\ (Returned /\ response.kind = "InvalidState") =>
          /\ response.id \in DOMAIN prior.vms
          /\ response.current = StateBefore(response.id)
          /\ Illegal(response.op, response.current)
          /\ NothingChanged
    /\ (Returned /\ response.op \in {"start", "stop", "pause"}
           /\ response.id \in DOMAIN prior.vms
           /\ Illegal(response.op, StateBefore(response.id))) =>
          response.kind = "InvalidState"
    /\ \A t \in Tasks :
          (pc[t] # "idle" /\ req[t].op \in {"start", "stop", "pause"}) =>
              ~Illegal(req[t].op, StateBefore(req[t].id))

\* A pause of a paused VM was refused; its hypervisor is still paused.
C12_Witness ==
    /\ response.kind = "InvalidState" /\ response.op = "pause"
    /\ response.current = "Paused"
    /\ hv[response.id] = "paused"

StoppedNoHandle(id) ==
    /\ id \in DOMAIN vms
    /\ vms[id].vm.state = "Stopped" /\ vms[id].process = "None"

\* C13: stop on a Running or Paused VM always returns success with in-memory
\* state Stopped and no process handle, also when the catalog write fails;
\* then the catalog keeps the state the VM had before the stop, and after the
\* next initialize the VM is Stopped in registry and catalog.
C13_StopAlwaysSucceeds ==
    /\ \A t \in Tasks :
          pc[t] = "st_persist" =>
              /\ StateBefore(req[t].id) \in {"Running", "Paused"}
              /\ StoppedNoHandle(req[t].id)
    /\ (Returned /\ response.op = "stop" /\ response.id \in DOMAIN prior.vms
           /\ StateBefore(response.id) \in {"Running", "Paused"}) =>
          /\ response.kind = "Ok"
          /\ response.vm.state = "Stopped"
          /\ StoppedNoHandle(response.id)
          /\ hv[response.id] = "none"
          /\ response.id \in DOMAIN catalog
          /\ StateInCatalog(response.id) =
                IF response.error_logged THEN StateBefore(response.id)
                ELSE "Stopped"
    /\ InitFinished =>
          \A i \in DOMAIN acked :
              (acked[i].state = "Stopped" /\ ~DeleteCommitted(i)) =>
                  /\ StoppedNoHandle(i)
                  /\ i \in DOMAIN catalog /\ StateInCatalog(i) = "Stopped"

\* A VM whose stop was acknowledged while the catalog kept Paused has gone
\* through initialize: it was loaded as Paused and is Stopped in both.
C13_Witness ==
    /\ InitFinished
    /\ \E vm \in persisted :
          /\ vm.state = "Paused"
          /\ acked[vm.id].state = "Stopped" /\ interrupted[vm.id] = "none"
          /\ StoppedNoHandle(vm.id)
          /\ StateInCatalog(vm.id) = "Stopped"

ConfigureOrStartCalls == { HvCalls[k] : k \in 1..4 }

\* C14: when start on a Created or Stopped VM has spawned the process and
\* configure_machine, set_boot_source, add_root_drive or start_instance
\* fails, start returns FirecrackerError, the spawned process is killed, the
\* entry has no handle and the state is the prior one in memory and catalog.
C14_StartCallFailureUndone ==
    /\ \A t \in Tasks :
          pc[t] \in {"s_machine", "s_boot", "s_drive", "s_instance"} =>
              /\ StateBefore(req[t].id) \in {"Created", "Stopped"}
              /\ hv[req[t].id] # "none"
              /\ vms = prior.vms /\ catalog = prior.catalog
    /\ (Returned /\ response.op = "start" /\ issued \in ConfigureOrStartCalls) =>
          /\ response.kind = "FirecrackerError"
          /\ StateBefore(response.id) \in {"Created", "Stopped"}
          /\ hv[response.id] = "none"
          /\ leaked = prior.leaked
          /\ vms[response.id].process = "None"
          /\ vms[response.id].vm.state = StateBefore(response.id)
          /\ vms = prior.vms /\ catalog = prior.catalog

\* start_instance failed in a start of a stopped VM.
C14_Witness ==
    /\ Returned /\ response.kind = "FirecrackerError"
    /\ issued = "start_instance"
    /\ StateBefore(response.id) = "Stopped"

PersistFailed(op) ==
    Returned /\ response.kind = "PersistenceError" /\ response.op = op

\* C15: when the catalog write fails after the hypervisor accepted a pause
\* (pause on Running) or a resume (start on Paused), the opposite command is
\* sent, PersistenceError is returned and the state in memory and catalog is
\* the one before the call; when it fails in a start from Created or Stopped
\* the spawned process is killed and the state is unchanged.
C15_PersistFailureRollsBack ==
    /\ \A t \in Tasks :
          /\ pc[t] = "p_persist" =>
                 StateBefore(req[t].id) = "Running" /\ hv[req[t].id] = "paused"
          /\ pc[t] = "r_persist" =>
                 StateBefore(req[t].id) = "Paused" /\ hv[req[t].id] = "running"
          /\ pc[t] = "s_persist" =>
                 /\ StateBefore(req[t].id) \in {"Created", "Stopped"}
                 /\ hv[req[t].id] = "running"
    /\ PersistFailed("pause") =>
          /\ StateBefore(response.id) = "Running"
          /\ issued = "resume_instance"
          /\ vms = prior.vms /\ catalog = prior.catalog
    /\ (PersistFailed("start") /\ StateBefore(response.id) = "Paused") =>
          /\ issued = "pause_instance"
          /\ vms = prior.vms /\ catalog = prior.catalog
    /\ (PersistFailed("start") /\ StateBefore(response.id) # "Paused") =>
          /\ StateBefore(response.id) \in {"Created", "Stopped"}
          /\ issued = NoCall
          /\ hv[response.id] = "none" /\ leaked = prior.leaked
          /\ vms[response.id].process = "None"
          /\ vms = prior.vms /\ catalog = prior.catalog

\* The catalog write of a pause failed and the resume sent back took effect.
C15_Witness ==
    /\ PersistFailed("pause")
    /\ hv[response.id] = "running"
    /\ vms[response.id].vm.state = "Running"

\* C16 as stated: when the catalog write of create, start, pause or delete
\* fails, an error is returned and everything the operation had done is
\* reverted: registry, catalog and the VM's processes are as before the call
\* (stop being the only operation that leaves its effect in place).
C16_StopOnlyLeavesEffect ==
    (Returned /\ response.kind = "PersistenceError"
       /\ response.op \in {"create", "start", "pause", "delete"}) =>
        /\ vms = prior.vms /\ catalog = prior.catalog
        /\ leaked = prior.leaked
        /\ \A i \in Ids : (hv[i] = "none") <=> (prior.hv[i] = "none")

\* Tasks inside create, start, stop, pause or delete.
Writing == { t \in Tasks : pc[t] \notin {"idle", "reading"} }

\* Tasks inside get or list.
Reading == { t \in Tasks : pc[t] = "reading" }

\* C17: create, start, stop, pause, delete and initialize have the registry
\* to themselves from their first step to their return, spawn and hypervisor
\* calls included; get and list share it with each other only. So a start
\* succeeds only on a VM that was not Running when it got the lock (of two
\* starts of one Created VM the second finds it Running and is refused), and
\* get and list return the registry's records with no operation in progress.
C17_ExclusiveWritersSharedReaders ==
    /\ Cardinality(Writing) <= 1
    /\ Writing = (IF lock.writer = 0 THEN {} ELSE {lock.writer})
    /\ Reading = lock.readers
    /\ Writing # {} => Reading = {}
    /\ phase = "init" => Writing = {} /\ Reading = {}
    /\ (Returned /\ response.op \in ReadOps) =>
          /\ Writing = {}
          /\ vms = prior.vms
          /\ response.op = "list" => response.list = ListVms
          /\ (response.op = "get" /\ response.kind = "Ok") =>
                 response.vm = vms[response.id].vm
    /\ (Returned /\ response.op = "start" /\ response.kind = "Ok") =>
          /\ StateBefore(response.id) # "Running"
          /\ vms[response.id].vm.state = "Running"
    /\ (Returned /\ response.op = "start"
           /\ response.id \in DOMAIN prior.vms
           /\ StateBefore(response.id) = "Running") =>
          response.kind = "InvalidState"

\* Two tasks read at once.
C17_Witness ==
    /\ Cardinality(Reading) = NumTasks
    /\ \E i \in DOMAIN vms : vms[i].vm.state = "Running"

\* C18 as stated: at every moment at most one hypervisor child started by
\* the control plane is alive for a VM id: no child a handle (or a running
\* start) owns is alive while another child of the same id, which no handle
\* refers to, is alive too.
C18_OneChildPerVm ==
    \A i \in Ids : ~(hv[i] # "none" /\ i \in leaked)

\* C19: no request runs or returns before initialize has returned Ok, nor
\* after it has failed; when initialize is through, every record it loaded is
\* in the registry and the catalog holds the reconciled state of each, so the
\* reconciliation is committed before the first request.
C19_InitializeBeforeRequests ==
    /\ phase # "serving" => (Writing = {} /\ Reading = {} /\ ~Returned)
    /\ phase = "serving" => (initQueue = {} /\ persisted = {})
    /\ InitFinished =>
          /\ DOMAIN vms = DOMAIN catalog
          /\ \A i \in DOMAIN catalog :
                /\ StateInCatalog(i) \in {"Created", "Stopped"}
                /\ Agree(i)
          /\ \A vm \in persisted : vm.id \in DOMAIN vms

\* initialize is through with a record it read as Running and has committed
\* as Stopped; no request has been served yet.
C19_Witness ==
    /\ InitFinished /\ ~Returned
    /\ \E vm \in persisted :
          vm.state = "Running" /\ StateInCatalog(vm.id) = "Stopped"

Range(q) == { q[n] : n \in 1..Len(q) }

\* C20 as stated: every chunk read from the PTY master is in the log file
\* before it is written to a client, so whatever live output a client has
\* received is contained in the log.
C20_LogBeforeClients ==
    \A c \in Clients : Range(console.received[c]) \subseteq Range(console.log)

\* The bytes a client has been written, in order: the replay, then the
\* fan-out.
Stream(c) == console.replayed[c] \o console.received[c]

\* The chunks read from the PTY master since client c was accepted.
ReadSince(c) ==
    [k \in 1..(console.next - console.seen[c]) |-> console.seen[c] + k - 1]

Connected == Range(console.clients)

\* C21 as stated: at the top of each loop iteration a client that is still
\* connected has received exactly the log as it was at its accept followed
\* by every chunk read since, and that equals the log contents.
C21_ClientStreamIsLog ==
    ConsoleAt("accept") =>
        \A c \in Connected :
            /\ Stream(c) = console.had[c] \o ReadSince(c)
            /\ Stream(c) = console.log

IsPrefix(p, q) == Len(p) <= Len(q) /\ SubSeq(q, 1, Len(p)) = p

KillHasReturned == console.kills >= 1 /\ console.killpc = "idle"

\* C22: once kill has returned, the liveness flag is cleared, the child has
\* been sent SIGKILL, the console thread has ended, the control socket and
\* the console socket files are gone, and the log file exists and holds at
\* least what it held when kill was called.
C22_KillPostcondition ==
    KillHasReturned =>
        /\ ~console.running
        /\ console.child = "killed"
        /\ ConsoleAt("done")
        /\ ~console.api /\ ~console.sock
        /\ console.logfile /\ IsPrefix(console.kept, console.log)

\* kill has returned for a handle whose thread had logged output and had a
\* client connected.
C22_Witness ==
    /\ KillHasReturned /\ console.kills = 1
    /\ console.kept # << >> /\ Connected # {}

\* C23: a second kill on the same handle returns and leaves exactly what
\* the first one left: flag cleared, child killed, thread ended, both socket
\* files absent, the log file and its contents as they were.
C23_KillIdempotent ==
    (console.kills = 2 /\ console.killpc = "idle") => Observed = console.first

\* The second kill has returned on a handle with a non-empty log.
C23_Witness ==
    /\ console.kills = 2 /\ console.killpc = "idle"
    /\ console.log # << >> /\ console.first # NoKill

\* C30 as stated: while the log is replayed to a newly accepted client its
\* stream is still blocking, so every connected client was replayed the
\* whole log as it was at its accept.
C30_ReplayThenNonBlocking ==
    /\ ConsoleAt("replay") => console.pending \notin console.nonblocking
    /\ \A c \in Connected : console.replayed[c] = console.had[c]

AfterShutdown == phase = "down" /\ prior.taken

GetReturned == Returned /\ response.op = "get"

\* C25: the console info built from a get_vm result has available = true
\* exactly when the VM's in-memory state is Running, always carries the VM's
\* id, console socket path and log path, and is 404 not_found for an id the
\* registry does not hold.
C25_ConsoleInfoAvailable ==
    GetReturned =>
        LET info == GetConsoleInfo(response)
            id == response.id
        IN  IF id \in DOMAIN vms
            THEN /\ info.status = 200
                 /\ info.body.available <=> vms[id].vm.state = "Running"
                 /\ info.body.vm_id = id
                 /\ info.body.console_socket_path = ConsoleSocketPath(id)
                 /\ info.body.log_path = LogPath(id)
            ELSE /\ info.status = 404
                 /\ info.body.error = "not_found"

\* Console info was asked for a paused VM whose hypervisor is alive.
C25_Witness ==
    /\ GetReturned /\ response.kind = "Ok"
    /\ response.vm.state = "Paused" /\ hv[response.id] = "paused"
    /\ ~GetConsoleInfo(response).body.available

ErrorReturned == Returned /\ response.kind # "Ok"

\* C26: every error the manager returns is one of the five kinds and is
\* mapped to its own status and code (404 not_found, 409 conflict, 400
\* invalid_state, 500 firecracker_error, 500 persistence_error), distinct
\* kinds giving distinct bodies; an operation on an id the registry does not
\* hold gives 404, and a 500 is given only for a create or for an id the
\* registry holds.
C26_ErrorsMappedOneToOne ==
    /\ ErrorReturned =>
          LET h == ErrorToResponse(response.kind) IN
          /\ response.kind \in ErrorKinds
          /\ response.kind = "VmNotFound" =>
                h = [status |-> 404, error |-> "not_found"]
          /\ response.kind = "VmAlreadyExists" =>
                h = [status |-> 409, error |-> "conflict"]
          /\ response.kind = "InvalidState" =>
                h = [status |-> 400, error |-> "invalid_state"]
          /\ response.kind = "FirecrackerError" =>
                h = [status |-> 500, error |-> "firecracker_error"]
          /\ response.kind = "PersistenceError" =>
                h = [status |-> 500, error |-> "persistence_error"]
          /\ h.status = 500 =>
                response.op = "create" \/ response.id \in DOMAIN prior.vms
    /\ (Returned /\ response.op \in ByIdOps
            /\ response.id \notin DOMAIN prior.vms) =>
          /\ ErrorReturned
          /\ ErrorToResponse(response.kind).status = 404
    /\ \A j, k \in ErrorKinds :
          ErrorToResponse(j) = ErrorToResponse(k) => j = k

\* A delete failed in the catalog and reaches the client as a 500.
C26_Witness ==
    /\ ErrorReturned /\ response.kind = "PersistenceError"
    /\ response.op = "delete"
    /\ ErrorToResponse(response.kind).status = 500

\* C27 as stated: a call of the hypervisor client returns Ok exactly when
\* a response was read whose status line carries 200 or 204, whatever the
\* body holds; every other status and every connection failure is an error.
C27_SuccessIffStatusLine ==
    client.pc = "returned" =>
        (client.result = "Ok" <=> client.status \in {200, 204})

\* The edges of the VM state machine and the operation that takes each.
Edges ==
    { << "Created", "Running" >>, << "Stopped", "Running" >>,
      << "Paused", "Running" >>, << "Running", "Paused" >>,
      << "Running", "Stopped" >>, << "Paused", "Stopped" >> }

EdgeOp(to) ==
    CASE to = "Running" -> "start"
      [] to = "Paused"  -> "pause"
      [] to = "Stopped" -> "stop"
      [] OTHER          -> "none"

\* The request of the task that holds the write guard before or after a step.
WriterRequest ==
    IF lock.writer # 0 THEN req[lock.writer]
    ELSE IF lock'.writer # 0 THEN req'[lock'.writer]
    ELSE NoReq

\* C28: while the manager serves requests, the in-memory state of a VM
\* changes only along Created->Running, Stopped->Running, Paused->Running
\* (start), Running->Paused (pause), Running->Stopped and Paused->Stopped
\* (stop), by that operation on that VM; an entry is new only as Created and
\* no entry ever becomes Created again.
C28_OnlyStateMachineEdges ==
    [][ /\ \A i \in (DOMAIN vms) \cap (DOMAIN vms') :
              LET a == vms[i].vm.state
                  b == vms'[i].vm.state
              IN  a # b =>
                    /\ << a, b >> \in Edges
                    /\ WriterRequest.id = i
                    /\ WriterRequest.op = EdgeOp(b)
        /\ phase = "serving" =>
              \A i \in (DOMAIN vms') \ (DOMAIN vms) :
                  vms'[i].vm.state = "Created" ]_vars

\* A start has resumed a paused VM.
C28_Witness ==
    /\ Returned /\ response.kind = "Ok" /\ response.op = "start"
    /\ StateBefore(response.id) = "Paused"
    /\ vms[response.id].vm.state = "Running"

StartId(t) == req[t].id

Arrives(t, to) == pc[t] # to /\ pc'[t] = to

\* C29: a start from Created or Stopped goes spawn, configure_machine,
\* set_boot_source, add_root_drive, start_instance, catalog update to
\* Running, attach handle and set Running in memory, each step taken only
\* from the success of the one before: start_instance is sent only to a
\* hypervisor that was fully configured, and the catalog is set to Running
\* only for a guest that was started.
C29_StartStepOrder ==
    [][ \A t \in Tasks :
          /\ Arrives(t, "s_spawn") =>
                /\ pc[t] = "idle"
                /\ vms[StartId(t)'].vm.state \in {"Created", "Stopped"}
          /\ Arrives(t, "s_machine") =>
                /\ pc[t] = "s_spawn"
                /\ hv'[StartId(t)] = "fresh" /\ issued' = NoCall
          /\ Arrives(t, "s_boot") =>
                pc[t] = "s_machine" /\ issued' = "configure_machine"
          /\ Arrives(t, "s_drive") =>
                pc[t] = "s_boot" /\ issued' = "set_boot_source"
          /\ Arrives(t, "s_instance") =>
                /\ pc[t] = "s_drive" /\ issued' = "add_root_drive"
                /\ hv'[StartId(t)] = "configured"
          /\ (pc[t] \in {"s_machine", "s_boot", "s_drive", "s_instance"}
                 /\ issued' = "start_instance") =>
                /\ pc[t] = "s_instance"
                /\ hv[StartId(t)] = "configured"
          /\ Arrives(t, "s_persist") =>
                /\ pc[t] = "s_instance" /\ issued' = "start_instance"
                /\ hv'[StartId(t)] = "running"
                /\ catalog' = catalog /\ vms' = vms
          /\ Arrives(t, "s_commit") =>
                /\ pc[t] = "s_persist"
                /\ hv[StartId(t)] = "running"
                /\ StateInCatalog(StartId(t))' = "Running"
                /\ vms' = vms
          /\ (pc[t] \in {"s_spawn", "s_machine", "s_boot", "s_drive",
                           "s_instance", "s_persist"}) =>
                /\ vms' \in {vms, EmptyMap}
                /\ pc[t] # "s_persist" => catalog' = catalog
          /\ (pc[t] = "s_commit" /\ vms' # vms /\ phase' = "serving") =>
                /\ StateInCatalog(StartId(t)) = "Running"
                /\ vms'[StartId(t)].process = "Some"
                /\ vms'[StartId(t)].vm.state = "Running" ]_vars

\* A start of a stopped VM has gone through all its steps.
C29_Witness ==
    /\ Returned /\ response.kind = "Ok" /\ response.op = "start"
    /\ StateBefore(response.id) = "Stopped"
    /\ hv[response.id] = "running"
    /\ vms[response.id].process = "Some"

\* C31 as stated: a client for which a write by the console thread failed
\* (the replay at accept or the fan-out of a chunk) is no longer among the
\* connected clients, so no later chunk is written to it; and once a chunk
\* has been offered to every client, each client still connected has
\* received it.
C31_FailedClientDropped ==
    /\ console.failed \cap Connected = {}
    /\ (ConsoleAt("send") /\ console.pos > Len(console.clients)) =>
          \A c \in Connected :
             /\ console.received[c] # << >>
             /\ console.received[c][Len(console.received[c])] = console.data

\* C32: once the liveness flag is cleared the console thread ends, and a
\* kill that waits in join returns. (When the PTY master reports end of
\* file the thread ends in that very step, ConsoleReadClosed.)
C32_ConsoleWorkerExits ==
    /\ (~console.running) ~> ConsoleAt("done")
    /\ (console.killpc = "join") ~> (console.killpc = "idle")

\* A kill has returned from its join of a thread that had served a client
\* and logged output.
C32_Witness ==
    /\ ConsoleAt("done") /\ console.joined
    /\ console.kills = 1 /\ console.killpc = "idle"
    /\ Connected # {} /\ console.log # << >>

StartReturned == Returned /\ response.op = "start"

\* C33: spawn returns a handle only if it saw the control socket file in one
\* of its 50 looks; when the looks run out it returns SocketConnection; and
\* start then returns FirecrackerError with registry (state, no handle) and
\* catalog as they were, going on to the hypervisor calls only with a handle.
C33_HandleOnlyIfSocketSeen ==
    /\ spawn.result = "Ok" => spawn.api /\ spawn.polls + 1 <= MaxPolls
    /\ (spawn.pc = "done" /\ spawn.thread /\ spawn.result # "Ok") =>
          spawn.result = "SocketConnection" /\ spawn.polls = MaxPolls
    /\ (\E t \in Tasks : pc[t] = "s_machine") => spawn.result = "Ok"
    /\ (StartReturned /\ spawn.pc = "done") =>
          /\ spawn.result # "Ok"
          /\ response.kind = "FirecrackerError"
          /\ vms = prior.vms /\ catalog = prior.catalog
          /\ vms[response.id].process = "None"
          /\ vms[response.id].vm.state = "Created"

\* The socket never appeared: 50 looks, then start has returned its error.
C33_Witness ==
    /\ StartReturned /\ response.kind = "FirecrackerError"
    /\ spawn.result = "SocketConnection" /\ spawn.polls = MaxPolls
    /\ ~spawn.api

LiveStates == {"Running", "Paused"}

\* C34 as stated: a delete of a Running or Paused VM kills the process
\* first and writes nothing to the catalog before the record is removed,
\* removes the catalog record before the registry entry, and when it has
\* returned success no hypervisor process of that id is alive (none owned
\* by a handle, none orphaned), and the id is in neither catalog nor
\* registry.
C34_DeleteLiveVm ==
    /\ \A t \in Tasks :
          (pc[t] \in {"d_delete", "d_remove"}
             /\ StateBefore(req[t].id) \in LiveStates) =>
              /\ hv[req[t].id] = "none"
              /\ req[t].id \in DOMAIN vms
              /\ catalog = IF pc[t] = "d_delete" THEN prior.catalog
                           ELSE Remove(prior.catalog, req[t].id)
    /\ (ReturnedOk({"delete"}) /\ StateBefore(response.id) \in LiveStates) =>
          /\ hv[response.id] = "none"
          /\ response.id \notin leaked
          /\ response.id \notin DOMAIN catalog
          /\ response.id \notin DOMAIN vms

\* C35 as stated: when a start of a Created or Stopped VM returns an error,
\* whatever failed, no child that this start spawned is alive: none is owned
\* by the call or a handle, and none (nor its console thread) is left
\* without an owner.
C35_FailedStartLeavesNoChild ==
    (StartReturned /\ response.kind # "Ok"
       /\ response.id \in DOMAIN prior.vms
       /\ StateBefore(response.id) \in {"Created", "Stopped"}) =>
        /\ hv[response.id] = "none"
        /\ leaked = prior.leaked

\* C36: in every reachable state a registry entry whose state is Running or
\* Paused has a process handle and one whose state is Created or Stopped has
\* none; while initialize runs, every entry it has loaded is Created or
\* Stopped.
C36_LiveIffHandle ==
    /\ \A i \in DOMAIN vms :
          (vms[i].vm.state \in LiveStates) <=> (vms[i].process = "Some")
    /\ phase = "init" =>
          \A i \in DOMAIN vms : vms[i].vm.state \in {"Created", "Stopped"}

\* A Paused VM whose delete failed at the catalog still has its handle.
C36_Witness ==
    /\ Returned /\ response.op = "delete" /\ response.kind = "PersistenceError"
    /\ vms[response.id].vm.state = "Paused"
    /\ vms[response.id].process = "Some"

\* C37: once initialize has succeeded, whenever no operation holds the
\* write guard the ids of the registry are the keys of the catalog; after
\* a successful create the new id is in both, after a successful delete the
\* id is in neither.
C37_RegistryIdsAreCatalogKeys ==
    /\ (phase = "serving" /\ lock.writer = 0) =>
          DOMAIN vms = DOMAIN catalog
    /\ ReturnedOk({"create"}) =>
          response.id \in DOMAIN vms \cap DOMAIN catalog
    /\ ReturnedOk({"delete"}) =>
          response.id \notin DOMAIN vms \cup DOMAIN catalog

\* A create has failed at the catalog next to a VM that exists.
C37_Witness ==
    /\ Returned /\ response.op = "create"
    /\ response.kind = "PersistenceError"
    /\ DOMAIN vms # {} /\ DOMAIN vms = DOMAIN catalog

\* Everything of a Vm but its state.
Identity(vm) == [vm EXCEPT !.state = "Created"]

\* C38: id, name, config and the three paths of a VM never change. Every
\* record, in the registry and in the catalog, carries the id it is filed
\* under and the paths Vm::new derives from it; the registry entry and the
\* catalog record of a VM differ in nothing but the state; an operation
\* leaves all but the state of every entry and record it found as it was;
\* and what initialize loaded is what the catalog still holds, state aside.
C38_OnlyStateChanges ==
    /\ \A i \in DOMAIN vms :
          Identity(vms[i].vm) = VmNew(i, vms[i].vm.name, vms[i].vm.config)
    /\ \A i \in DOMAIN catalog :
          Identity(Deserialize(catalog[i]))
             = VmNew(i, catalog[i].name, catalog[i].config)
    /\ \A i \in DOMAIN vms \cap DOMAIN catalog :
          Identity(vms[i].vm) = Identity(Deserialize(catalog[i]))
    /\ (prior.taken /\ phase = "serving") =>
          /\ \A i \in DOMAIN vms \cap DOMAIN prior.vms :
                Identity(vms[i].vm) = Identity(prior.vms[i].vm)
          /\ \A i \in DOMAIN catalog \cap DOMAIN prior.catalog :
                Identity(Deserialize(catalog[i]))
                   = Identity(Deserialize(prior.catalog[i]))
    /\ \A vm \in persisted :
          vm.id \in DOMAIN catalog =>
             Identity(vm) = Identity(Deserialize(catalog[vm.id]))

\* A VM that was started and paused, with its pause just acknowledged.
C38_Witness ==
    /\ ReturnedOk({"pause"})
    /\ StateInCatalog(response.id) = "Paused"
    /\ vms[response.id].vm.name = MaxNames

\* The id the operation that is running, or has just returned, works on.
TouchedId ==
    IF lock.writer # 0 THEN req[lock.writer].id
    ELSE IF Returned THEN response.id ELSE 0

\* The entry of m under i, or nothing.
Lookup(m, i) == IF i \in DOMAIN m THEN << m[i] >> ELSE << >>

\* C39: from the first step of an operation to its return, successful or
\* not, the registry entry (handle included), the catalog record, the
\* hypervisor child, the orphans and the control socket of every VM other
\* than the one the operation works on are as the operation found them.
C39_OtherVmsUntouched ==
    (prior.taken /\ phase = "serving") =>
        \A i \in Ids \ {TouchedId} :
            /\ Lookup(vms, i) = Lookup(prior.vms, i)
            /\ Lookup(catalog, i) = Lookup(prior.catalog, i)
            /\ hv[i] = prior.hv[i]
            /\ (i \in leaked) = (i \in prior.leaked)
            /\ (SocketPath(i) \in sockets) = (SocketPath(i) \in prior.sockets)

\* A start has returned success while another VM exists.
C39_Witness ==
    /\ ReturnedOk({"start"})
    /\ hv[response.id] = "running"
    /\ DOMAIN vms \ {response.id} # {}

\* The names of the VMs whose delete was acknowledged.
DeletedNames == { acked[i].name : i \in Deleted }

\* C40: a create is refused with VmAlreadyExists only when an entry of the
\* registry has the name, so the name of a deleted VM is free again; and the
\* VM a successful create returns has an id that no deleted VM had and no
\* entry had when the create began, in the same manager and after restarts.
C40_DeletedNameIsFree ==
    /\ (Returned /\ response.kind = "VmAlreadyExists") =>
          \E i \in DOMAIN prior.vms : prior.vms[i].vm.name = response.name
    /\ ReturnedOk({"create"}) =>
          /\ response.id \notin Deleted
          /\ response.id \notin DOMAIN prior.vms
          /\ response.id \notin DOMAIN prior.catalog

\* A create with the name of a deleted VM has succeeded.
C40_Witness ==
    /\ ReturnedOk({"create"})
    /\ response.vm.name \in DeletedNames
    /\ response.id \notin Deleted

====
